---- MODULE Spec2Model ----
(***************************************************************************)
(* Agent Ops Watcher (src/src/agent-ops-watcher.ts): a poll loop over      *)
(* the agent-ops directory that parses spec files, runs the create /       *)
(* modify / delete handlers against the group registry, the task table     *)
(* and the file system, and records the outcome in the file name.          *)
(*                                                                         *)
(* Representation.  A string is a sequence of tokens (Str); "/" is a       *)
(* token, so paths are strings and startsWith / split / + are computed on  *)
(* tokens.  A text is the sequence of its lines as split('\n') yields      *)
(* them (never empty: the empty text is <<Blank>>).  A line is a record    *)
(* [k, key, val]: k is the shape of the line, key and val its parts.       *)
(***************************************************************************)
EXTENDS Integers, Sequences, FiniteSets, TLC

VARIABLES
    dir,        \* agent-ops directory: file name -> [fid, text]
    groups,     \* registered_groups table: jid -> RegisteredGroup
    tasks,      \* scheduled_tasks table: task id -> ScheduledTask
    docs,       \* groups/<folder>/CLAUDE.md: folder -> text
    settings,   \* data/sessions/<folder>/.claude/settings.json: folder -> env
    parts,      \* shared/{tasks,results,knowledge}/<agent> directories that exist
    shared,     \* the files in those directories: path -> content
    pc,         \* "idle" between ticks, "polling" inside poll()'s loop, "crashed"
    initial,    \* main's initial poll() has not returned yet
    files,      \* entries of readdirSync not yet visited by the loop
    nextFid,    \* identity of the next file an external actor writes
    scenario,   \* which spec files the external actors of this run write
    trail,      \* history: the latest dispatches, oldest first
    hist,       \* history: per file, its original text and what was run for it
    probe       \* a run of parseSection on its own: [body, heading, section]

vars == <<dir, groups, tasks, docs, settings, parts, shared, pc, initial, files, nextFid,
          scenario, trail, hist, probe>>

world == <<groups, tasks, docs, settings, parts, shared>>

-----------------------------------------------------------------------------
(* Bounds of the model *)

MaxSubmits == 3     \* files external actors write into the directory

MaxTrail == 3       \* dispatches the history keeps

MaxLines == 5       \* lines of a body given to parseSection on its own

-----------------------------------------------------------------------------
(* Program constants *)

MAX_CLAUDE_MD_LINES == 150

SELF_MOD_NAMES == { <<"orchestrator">>, <<"main">> }

SPECIALIST == <<"-specialist">>

\* path.join(GROUPS_DIR, 'main', 'shared'), an absolute path
SHARED_DIR == <<"/", "groups", "/", "main", "/", "shared">>

PARTITION_SUBDIRS == <<"tasks", "results", "knowledge">>

STATUS_SUFFIXES == {"APPLIED", "FAILED", "PENDING_APPROVAL", "APPROVED"}

OPERATIONS == { <<"create">>, <<"modify">>, <<"delete">> }

\* The orchestrator's registration (setup/register-swarm.ts)
ORCHESTRATOR_JID == <<"393661210977@s.whatsapp.net">>

-----------------------------------------------------------------------------
(* Strings *)

\* String.prototype.toLowerCase on the tokens that have upper-case letters
LowerTok(t) ==
    CASE t = "Main" -> "main"
      [] t = "MAIN" -> "main"
      [] t = "Orchestrator" -> "orchestrator"
      [] OTHER -> t

ToLowerCase(s) == [i \in 1..Len(s) |-> LowerTok(s[i])]

StartsWith(s, p) == Len(p) <= Len(s) /\ SubSeq(s, 1, Len(p)) = p

EndsWith(s, p) == Len(p) <= Len(s) /\ SubSeq(s, Len(s) - Len(p) + 1, Len(s)) = p

\* s.split('/')[0]: the tokens before the first "/"
RECURSIVE FirstSegment(_)
FirstSegment(s) ==
    IF s = <<>> \/ Head(s) = "/" THEN <<>>
    ELSE <<Head(s)>> \o FirstSegment(Tail(s))

-----------------------------------------------------------------------------
(* Lines and texts *)

Line(k, key, val) == [k |-> k, key |-> key, val |-> val]

Blank == Line("blank", "", <<>>)                 \* ""
Dash == Line("dash", "", <<>>)                   \* "---"
Fence == Line("fence", "", <<>>)                 \* "```"
KV(key, val) == Line("kv", key, val)             \* "key: val", indented or not
Item(key, val) == Line("item", key, val)         \* "- key: val"
H2(title) == Line("h2", title, <<>>)             \* "## title"
Text(t) == Line("text", t, <<>>)                 \* any other line, no colon
Bold(label, msg) == Line("bold", label, msg)     \* "**label** msg"

IsBlank(l) == l.k = "blank"

\* String.prototype.trim / trimEnd on a text, line-wise: blank lines at the
\* ends go; what is left of an all-blank text is the empty string.
RECURSIVE TrimStart(_)
TrimStart(t) ==
    IF Len(t) > 1 /\ IsBlank(t[1]) THEN TrimStart(Tail(t)) ELSE t

RECURSIVE TrimEnd(_)
TrimEnd(t) ==
    IF Len(t) > 1 /\ IsBlank(t[Len(t)]) THEN TrimEnd(SubSeq(t, 1, Len(t) - 1)) ELSE t

Trim(t) == TrimStart(TrimEnd(t))

IsEmptyText(t) == t = <<Blank>>

\* a count that leaves one line out
LineCountShort(t) == Len(t) - 1

\* split('\n').length
LineCount(t) == Len(t)

-----------------------------------------------------------------------------
(* An optional text: null, or a text (possibly the empty string) *)

Null == [isNull |-> TRUE, text |-> <<Blank>>]

Some(t) == [isNull |-> FALSE, text |-> t]

\* JavaScript truthiness of string | null: neither null nor ''
Truthy(o) == ~o.isNull /\ ~IsEmptyText(o.text)

\* x || null for a string x
OrNull(t) == IF IsEmptyText(t) THEN Null ELSE Some(t)

\* Truthiness of a string value: undefined and '' are both falsy
NonEmpty(s) == s # <<>>

-----------------------------------------------------------------------------
(* parseFrontmatter *)

\* The first index of a set of line indices (the leftmost match), 0 if none
FirstIn(S) == IF S = {} THEN 0 ELSE CHOOSE j \in S : \A k \in S : j <= k

\* Index of the first line at or after i that is exactly "---" and is
\* followed by a newline, 0 if none: the lazy ([\s\S]*?)\n---\n
ClosingDash(content, i) ==
    FirstIn({j \in i..(Len(content) - 1) : content[j] = Dash})

\* fm[key] after the loop over the block's lines: the last assignment wins,
\* a key never assigned is undefined (falsy, like '')
RECURSIVE FmValue(_, _)
FmValue(yamlBlock, key) ==
    IF yamlBlock = <<>> THEN <<>>
    ELSE LET l == yamlBlock[Len(yamlBlock)]
         IN  IF l.k = "kv" /\ l.key = key THEN l.val
             ELSE FmValue(SubSeq(yamlBlock, 1, Len(yamlBlock) - 1), key)

NoParse == [ok |-> FALSE, operation |-> <<>>, agent |-> <<>>, model |-> <<>>,
            body |-> <<Blank>>]

\* a parse that takes any operation name
parseFrontmatterAnyOperation(content) ==
    LET j == IF Len(content) >= 3 /\ content[1] = Dash THEN ClosingDash(content, 3) ELSE 0
    IN  IF j = 0 THEN NoParse
        ELSE LET yamlBlock == SubSeq(content, 2, j - 1)
                 operation == FmValue(yamlBlock, "operation")
                 agent == FmValue(yamlBlock, "agent")
             IN  IF ~NonEmpty(operation) \/ ~NonEmpty(agent) THEN NoParse
                 ELSE [ok |-> TRUE, operation |-> operation, agent |-> agent,
                       model |-> FmValue(yamlBlock, "model"),
                       body |-> SubSeq(content, j + 1, Len(content))]

parseFrontmatter(content) ==
    LET j == IF Len(content) >= 3 /\ content[1] = Dash THEN ClosingDash(content, 3) ELSE 0
    IN  IF j = 0 THEN NoParse
        ELSE LET yamlBlock == SubSeq(content, 2, j - 1)
                 operation == FmValue(yamlBlock, "operation")
                 agent == FmValue(yamlBlock, "agent")
             IN  IF ~NonEmpty(operation) \/ ~NonEmpty(agent) THEN NoParse
                 ELSE IF operation \notin OPERATIONS THEN NoParse
                 ELSE [ok |-> TRUE, operation |-> operation, agent |-> agent,
                       model |-> FmValue(yamlBlock, "model"),
                       body |-> SubSeq(content, j + 1, Len(content))]

-----------------------------------------------------------------------------
(* parseSection, parseCodeBlock, parseYamlList *)

\* Lower-cased heading titles (the regex has the i flag)
LowerTitle(t) ==
    CASE t = "CLAUDE.md" -> "claude.md"
      [] t = "Append to CLAUDE.md" -> "append to claude.md"
      [] t = "Mounts" -> "mounts"
      [] t = "API Keys" -> "api keys"
      [] t = "Env" -> "env"
      [] t = "Environment" -> "environment"
      [] t = "Scheduled Tasks" -> "scheduled tasks"
      [] t = "Tasks" -> "tasks"
      [] OTHER -> t

\* The heading lines new RegExp(`^##\s+${heading}\s*$`, 'im') matches
SectionTitles(heading) ==
    CASE heading = "CLAUDE\\.md" -> {"claude.md"}
      [] heading = "Append to CLAUDE\\.md" -> {"append to claude.md"}
      [] heading = "Mounts" -> {"mounts"}
      [] heading = "API Keys|Env|Environment" -> {"api keys", "env", "environment"}
      [] heading = "Scheduled Tasks|Tasks" -> {"scheduled tasks", "tasks"}
      [] OTHER -> {}

\* No line
NoLine == Line("none", "", <<>>)

\* The branch Env of ^##\s+API Keys|Env|Environment\s*$ matches the letters
\* "env" wherever they stand, in any letter case: what is left of the line
\* after them, NoLine for a line without them
AfterEnv(l) ==
    CASE l.k = "h2" /\ LowerTitle(l.key) = "env" -> Blank
      [] l.k = "h2" /\ LowerTitle(l.key) = "environment" -> Text("ironment")
      [] l = Text("Read the .env file") -> Text(" file")
      [] OTHER -> NoLine

\* The branch Tasks\s*$ of ^##\s+Scheduled Tasks|Tasks\s*$ matches at the end
\* of any line that ends with "tasks", in any letter case
EndsWithTasks(l) ==
    \/ l.k = "h2" /\ LowerTitle(l.key) \in {"scheduled tasks", "tasks"}
    \/ l.k \in {"kv", "item"} /\ l.val # <<>> /\ l.val[Len(l.val)] = "tasks"
    \/ l = Text("Handle the billing tasks")

\* The line holds a match of the regular expression; in a heading with
\* alternatives, ^##\s+ belongs to the first branch and \s*$ to the last
LineMatches(l, heading) ==
    CASE heading = "API Keys|Env|Environment" ->
             (l.k = "h2" /\ LowerTitle(l.key) = "api keys") \/ AfterEnv(l) # NoLine
      [] heading = "Scheduled Tasks|Tasks" -> EndsWithTasks(l)
      [] OTHER -> l.k = "h2" /\ LowerTitle(l.key) \in SectionTitles(heading)

\* What is left of the matched line after match[0]
Remainder(l, heading) ==
    IF heading = "API Keys|Env|Environment" /\ AfterEnv(l) # NoLine
    THEN AfterEnv(l)
    ELSE Blank

FirstMatch(body, heading, i) ==
    FirstIn({j \in i..Len(body) : LineMatches(body[j], heading)})

\* inCodeBlock when the loop reaches line j, having started at line i: every
\* line starting with ``` on the way has toggled it
InCodeBlockAt(lines, i, j, inCodeBlock) ==
    inCodeBlock # (Cardinality({k \in i..(j - 1) : lines[k].k = "fence"}) % 2 = 1)

\* The loop over rest's lines: index of the first line starting with '## '
\* outside a code block, 0 if none
SectionEnd(lines, i, inCodeBlock) ==
    FirstIn({j \in i..Len(lines) :
                lines[j].k = "h2" /\ ~InCodeBlockAt(lines, i, j, inCodeBlock)})

\* end === -1 ? rest : rest.slice(0, end), and section.trim() || null
SectionUpTo(rest, end) ==
    OrNull(Trim(IF end = 0 THEN rest ELSE SubSeq(rest, 1, end - 1) \o <<Blank>>))

\* The loop over the lines of rest, and the return
SectionOf(rest) == SectionUpTo(rest, SectionEnd(rest, 1, FALSE))

\* parseSection after body.match(regex): m is the matched line, 0 for no match
SectionFrom(body, heading, m) ==
    IF m = 0 THEN Null
    ELSE SectionOf(<<Remainder(body[m], heading)>> \o SubSeq(body, m + 1, Len(body)))

parseSection(body, heading) == SectionFrom(body, heading, FirstMatch(body, heading, 1))

NextFence(text, i) == FirstIn({j \in i..Len(text) : text[j].k = "fence"})

\* /```[\w]*\n([\s\S]*?)```/ and match[1].trim()
parseCodeBlock(text) ==
    LET a == NextFence(text, 1)
        b == IF a = 0 THEN 0 ELSE NextFence(text, a + 1)
    IN  IF b = 0 THEN Null
        ELSE Some(Trim(SubSeq(text, a + 1, b - 1) \o <<Blank>>))

\* parseCodeBlock(section) || section
CodeBlockOr(section) ==
    IF Truthy(parseCodeBlock(section)) THEN parseCodeBlock(section).text ELSE section

\* A list item: its key/value pairs in insertion order, keys unique
RECURSIVE ItemGet(_, _)
ItemGet(item, key) ==
    IF item = <<>> THEN <<>>
    ELSE IF Head(item).key = key THEN Head(item).val
    ELSE ItemGet(Tail(item), key)

ItemHas(item, key) == \E i \in 1..Len(item) : item[i].key = key

ItemPut(item, key, val) ==
    IF ItemHas(item, key)
    THEN [i \in 1..Len(item) |->
            IF item[i].key = key THEN [key |-> key, val |-> val] ELSE item[i]]
    ELSE Append(item, [key |-> key, val |-> val])

\* The state of parseYamlList's loop: items pushed so far, and current
RECURSIVE YamlLoop(_, _, _, _)
YamlLoop(text, i, items, current) ==
    IF i > Len(text)
    THEN IF current.open THEN Append(items, current.item) ELSE items
    ELSE LET l == text[i]
         IN  IF l.k = "item"
             THEN YamlLoop(text, i + 1,
                           IF current.open THEN Append(items, current.item) ELSE items,
                           [open |-> TRUE, item |-> ItemPut(<<>>, l.key, l.val)])
             ELSE IF current.open /\ l.k = "kv"
             THEN YamlLoop(text, i + 1, items,
                           [open |-> TRUE, item |-> ItemPut(current.item, l.key, l.val)])
             ELSE YamlLoop(text, i + 1, items, current)

parseYamlList(text) == YamlLoop(text, 1, <<>>, [open |-> FALSE, item |-> <<>>])

-----------------------------------------------------------------------------
(* External collaborators: registry, scheduler, secret store *)

\* isValidGroupFolder (group-folder.js): a folder name is letters, digits,
\* '_' and '-'; a name with a path separator or a dot segment is refused
isValidGroupFolder(folder) ==
    \A i \in 1..Len(folder) : folder[i] \notin {"/", "..", "."}

\* Cron expressions CronExpressionParser.parse accepts; it throws on the rest
ValidCron == { <<"0 9 * * 1">>, <<"*/30 * * * *">> }

\* interval.next().toISOString(): a function of the expression (at one instant)
NextRunOf(cronExpr) == <<"next-run-of ">> \o cronExpr

\* The result of a call that may throw
Ok(v) == [ok |-> TRUE, msg |-> <<>>, v |-> v]

Throw(msg, v) == [ok |-> FALSE, msg |-> msg, v |-> v]

computeNextCronRun(cronExpr) ==
    IF cronExpr \in ValidCron THEN Ok(NextRunOf(cronExpr))
    ELSE Throw(<<"Invalid cron expression: ">> \o cronExpr, <<>>)

\* .env: the keys of the secret store and their values
DotEnv == (<<"EXA_API_KEY">> :> <<"exa-secret">>)

\* readEnvFile(keys): the requested keys that are present, absent ones omitted
readEnvFile(keys) ==
    [k \in {keys[i] : i \in 1..Len(keys)} \cap DOMAIN DotEnv |-> DotEnv[k]]

\* Object.assign(target, source) on string maps
ObjectAssign(target, source) ==
    [k \in DOMAIN target \cup DOMAIN source |->
        IF k \in DOMAIN source THEN source[k] ELSE target[k]]

\* map with key k set to v / with key k removed
MapSet(m, k, v) == [x \in DOMAIN m \cup {k} |-> IF x = k THEN v ELSE m[x]]

MapDel(m, k) == [x \in DOMAIN m \ {k} |-> m[x]]

EmptyMap == [x \in {} |-> <<>>]

\* createTask: INSERT on a table whose primary key is id (register-swarm.ts
\* catches the UNIQUE constraint error of a second insert)
createTask(tbl, task) ==
    IF task.id \in DOMAIN tbl
    THEN Throw(<<"UNIQUE constraint failed: scheduled_tasks.id">>, tbl)
    ELSE Ok(MapSet(tbl, task.id, task))

\* updateTask(id, patch): UPDATE ... WHERE id = ?
updateTask(tbl, id, prompt, cron, nextRun) ==
    IF id \in DOMAIN tbl
    THEN [tbl EXCEPT ![id] = [@ EXCEPT !.prompt = prompt, !.schedule_value = cron,
                                       !.next_run = nextRun, !.status = "active"]]
    ELSE tbl

\* getTasksForGroup(folder), as the set of their ids
getTasksForGroup(tbl, folder) == {id \in DOMAIN tbl : tbl[id].group_folder = folder}

-----------------------------------------------------------------------------
(* validateMountsIsolation *)

CrossesMsg(hp, relative, subdir) ==
    <<"Mount \"">> \o hp \o <<"\" crosses into agent \"">> \o relative
        \o <<"\" ", subdir, " directory">>

\* The inner loop over ['tasks', 'results', 'knowledge'] for one mount
RECURSIVE SubdirLoop(_, _, _)
SubdirLoop(agentName, hp, s) ==
    IF s > Len(PARTITION_SUBDIRS) THEN Null
    ELSE LET subdir == PARTITION_SUBDIRS[s]
             sharedSubdir == SHARED_DIR \o <<"/", subdir>>
             relative == FirstSegment(SubSeq(hp, Len(sharedSubdir) + 2, Len(hp)))
         IN  IF StartsWith(hp, sharedSubdir \o <<"/">>)
                /\ NonEmpty(relative) /\ relative # agentName
             THEN [isNull |-> FALSE, text |-> CrossesMsg(hp, relative, subdir)]
             ELSE SubdirLoop(agentName, hp, s + 1)

RECURSIVE MountLoop(_, _, _)
MountLoop(agentName, mounts, i) ==
    IF i > Len(mounts) THEN Null
    ELSE LET r == SubdirLoop(agentName, mounts[i].hostPath, 1)
         IN  IF ~r.isNull THEN r ELSE MountLoop(agentName, mounts, i + 1)

\* null, or the violation message
validateMountsIsolation(agentName, mounts) == MountLoop(agentName, mounts, 1)

-----------------------------------------------------------------------------
(* The state the handlers act on, and helpers shared by create and modify *)

World(g, t, d, s, p, sh) ==
    [groups |-> g, tasks |-> t, docs |-> d, settings |-> s, parts |-> p, shared |-> sh]

\* a || b on string values
Or2(a, b) == IF NonEmpty(a) THEN a ELSE b

\* path.basename
RECURSIVE Basename(_)
Basename(path) ==
    IF \E i \in 1..Len(path) : path[i] = "/"
    THEN Basename(Tail(path))
    ELSE path

\* The loop that turns the items of a Mounts section into mount records
RECURSIVE MountItems(_, _)
MountItems(mountItems, i) ==
    IF i > Len(mountItems) THEN <<>>
    ELSE LET item == mountItems[i]
             host == Or2(ItemGet(item, "hostPath"), ItemGet(item, "host"))
         IN  (IF NonEmpty(host)
              THEN << [hostPath |-> host,
                       containerPath |-> Or2(Or2(ItemGet(item, "containerPath"),
                                                 ItemGet(item, "container")),
                                             Basename(host)),
                       readonly |-> ItemGet(item, "readonly") \in {<<"true">>, <<"yes">>}] >>
              ELSE <<>>)
             \o MountItems(mountItems, i + 1)

\* MODEL_MAP[lower] || model, and the default for an absent model
resolveModel(model) ==
    IF ~NonEmpty(model) THEN <<"claude-sonnet-4-6">>
    ELSE LET lower == ToLowerCase(model)
         IN  CASE lower = <<"opus">> -> <<"claude-opus-4-6">>
               [] lower = <<"sonnet">> -> <<"claude-sonnet-4-6">>
               [] lower = <<"haiku">> -> <<"claude-haiku-4-6">>
               [] lower = <<"opus-4-6">> -> <<"claude-opus-4-6">>
               [] lower = <<"sonnet-4-6">> -> <<"claude-sonnet-4-6">>
               [] lower = <<"claude-opus-4-6">> -> <<"claude-opus-4-6">>
               [] lower = <<"claude-sonnet-4-6">> -> <<"claude-sonnet-4-6">>
               [] OTHER -> model

\* Date.now() inside one handler run
NowToken == "<now>"

DefaultTaskId(agentName) == <<"task-">> \o agentName \o <<"-", NowToken>>

TaskIdOf(item, agentName) == Or2(ItemGet(item, "id"), DefaultTaskId(agentName))

TaskCronOf(item) == Or2(ItemGet(item, "cron"), ItemGet(item, "schedule"))

TaskPromptOf(item) == Or2(ItemGet(item, "prompt"), ItemGet(item, "description"))

NewTask(item, taskId, folder, jid, nextRun) ==
    [id |-> taskId, group_folder |-> folder, chat_jid |-> jid,
     prompt |-> TaskPromptOf(item), schedule_type |-> "cron",
     schedule_value |-> TaskCronOf(item),
     context_mode |-> Or2(ItemGet(item, "context_mode"), <<"group">>),
     next_run |-> nextRun, status |-> "active"]

\* charAt(0).toUpperCase() + slice(1)
UpperFirst(s) ==
    IF s = <<>> THEN s
    ELSE <<(CASE s[1] = "billing" -> "Billing"
              [] s[1] = "main" -> "Main"
              [] s[1] = "orchestrator" -> "Orchestrator"
              [] OTHER -> s[1])>> \o Tail(s)

\* `CLAUDE.md is ${lineCount} lines (max ...)`, and the wording of the append
TooLongMsg(lineCount, verb, after) ==
    <<"CLAUDE.md ", verb, ToString(lineCount), " lines", after, " (max ",
      ToString(MAX_CLAUDE_MD_LINES), ")">>

NotFoundMsg(agentName) == <<"Agent \"">> \o agentName \o <<"\" not found">>

-----------------------------------------------------------------------------
(* CREATE *)

StandardMounts(agentName) ==
    << [hostPath |-> SHARED_DIR \o <<"/", "tasks", "/">> \o agentName,
        containerPath |-> <<"tasks">>, readonly |-> FALSE],
       [hostPath |-> SHARED_DIR \o <<"/", "results", "/">> \o agentName,
        containerPath |-> <<"results">>, readonly |-> FALSE],
       [hostPath |-> SHARED_DIR \o <<"/", "knowledge", "/">> \o agentName,
        containerPath |-> <<"knowledge">>, readonly |-> FALSE],
       [hostPath |-> SHARED_DIR, containerPath |-> <<"shared">>, readonly |-> TRUE] >>

NewGroup(agentName, folder, allMounts) ==
    [name |-> UpperFirst(agentName) \o <<" Specialist">>,
     folder |-> folder,
     trigger |-> "@andy",
     additionalMounts |-> allMounts,
     timeout |-> 600000,
     requiresTrigger |-> FALSE]

BaseEnv(model) ==
    (<<"CLAUDE_CODE_EXPERIMENTAL_AGENT_TEAMS">> :> <<"1">>)
    @@ (<<"CLAUDE_CODE_ADDITIONAL_DIRECTORIES_CLAUDE_MD">> :> <<"1">>)
    @@ (<<"CLAUDE_CODE_DISABLE_AUTO_MEMORY">> :> <<"0">>)
    @@ (<<"CLAUDE_CODE_USE_MODEL">> :> resolveModel(model))

\* envItems.map(item => Object.values(item)[0] || Object.keys(item)[0]).filter(Boolean)
RECURSIVE KeyNames(_, _)
KeyNames(envItems, i) ==
    IF i > Len(envItems) THEN <<>>
    ELSE LET item == envItems[i]
             name == IF item = <<>> THEN <<>>
                     ELSE Or2(item[1].val, <<item[1].key>>)
         IN  (IF NonEmpty(name) THEN <<name>> ELSE <<>>) \o KeyNames(envItems, i + 1)

CreateEnv(body, model) ==
    LET envSection == parseSection(body, "API Keys|Env|Environment")
    IN  IF Truthy(envSection)
        THEN ObjectAssign(BaseEnv(model),
                          readEnvFile(KeyNames(parseYamlList(envSection.text), 1)))
        ELSE BaseEnv(model)

\* The loop over taskItems in handleCreate; a throw leaves the tasks created so far
RECURSIVE CreateTasksLoop(_, _, _, _, _)
CreateTasksLoop(taskItems, i, agentName, folder, tbl) ==
    IF i > Len(taskItems) THEN Ok(tbl)
    ELSE LET item == taskItems[i]
             jid == <<"agent:">> \o folder
             cron == TaskCronOf(item)
         IN  IF ~NonEmpty(cron) \/ ~NonEmpty(TaskPromptOf(item))
             THEN CreateTasksLoop(taskItems, i + 1, agentName, folder, tbl)
             ELSE LET next == computeNextCronRun(cron)
                      made == createTask(tbl, NewTask(item, TaskIdOf(item, agentName),
                                                      folder, jid, next.v))
                  IN  IF ~next.ok THEN Throw(next.msg, tbl)
                      ELSE IF ~made.ok THEN Throw(made.msg, tbl)
                      ELSE CreateTasksLoop(taskItems, i + 1, agentName, folder, made.v)

\* a lookup that never finds a registration
getRegisteredGroupBlind(g, jid) == FALSE

\* getRegisteredGroup(jid) as a condition: the registry has an entry for jid
getRegisteredGroup(g, jid) == jid \in DOMAIN g

\* a create that makes the partition directories before it validates the mounts
handleCreateMkdirFirst(agentName, body, model, w) ==
    LET folder == agentName \o SPECIALIST
        jid == <<"agent:">> \o folder
        claudeMdSection == parseSection(body, "CLAUDE\\.md")
        claudeMdContent == CodeBlockOr(claudeMdSection.text)
        lineCount == LineCount(claudeMdContent)
        mountsSection == parseSection(body, "Mounts")
        customMounts == IF Truthy(mountsSection)
                        THEN MountItems(parseYamlList(mountsSection.text), 1)
                        ELSE <<>>
        allMounts == StandardMounts(agentName) \o customMounts
        isolationError == validateMountsIsolation(agentName, allMounts)
        tasksSection == parseSection(body, "Scheduled Tasks|Tasks")
        \* the state after mkdirSync, writeFileSync, setRegisteredGroup and settings.json
        w1 == [w EXCEPT !.parts = @ \cup {agentName},
                        !.docs = MapSet(@, folder, claudeMdContent),
                        !.groups = MapSet(@, jid, NewGroup(agentName, folder, allMounts)),
                        !.settings = MapSet(@, folder, CreateEnv(body, model))]
        made == IF Truthy(tasksSection)
                THEN CreateTasksLoop(parseYamlList(tasksSection.text), 1,
                                     agentName, folder, w1.tasks)
                ELSE Ok(w1.tasks)
    IN  IF ~isValidGroupFolder(folder)
        THEN Throw(<<"Invalid folder name: ">> \o folder, w)
        ELSE IF getRegisteredGroup(w.groups, jid)
        THEN Throw(<<"Agent \"">> \o agentName \o <<"\" already exists (JID: ">>
                       \o jid \o <<")">>, w)
        ELSE IF ~Truthy(claudeMdSection)
        THEN Throw(<<"Missing ## CLAUDE.md section">>, w)
        ELSE IF lineCount > MAX_CLAUDE_MD_LINES
        THEN Throw(TooLongMsg(lineCount, "is ", ""), w)
        ELSE IF ~isolationError.isNull
        THEN Throw(isolationError.text, [w EXCEPT !.parts = @ \cup {agentName}])
        ELSE IF ~made.ok
        THEN Throw(made.msg, [w1 EXCEPT !.tasks = made.v])
        ELSE Ok([w1 EXCEPT !.tasks = made.v])

handleCreate(agentName, body, model, w) ==
    LET folder == agentName \o SPECIALIST
        jid == <<"agent:">> \o folder
        claudeMdSection == parseSection(body, "CLAUDE\\.md")
        claudeMdContent == CodeBlockOr(claudeMdSection.text)
        lineCount == LineCount(claudeMdContent)
        mountsSection == parseSection(body, "Mounts")
        customMounts == IF Truthy(mountsSection)
                        THEN MountItems(parseYamlList(mountsSection.text), 1)
                        ELSE <<>>
        allMounts == StandardMounts(agentName) \o customMounts
        isolationError == validateMountsIsolation(agentName, allMounts)
        tasksSection == parseSection(body, "Scheduled Tasks|Tasks")
        \* the state after mkdirSync, writeFileSync, setRegisteredGroup and settings.json
        w1 == [w EXCEPT !.parts = @ \cup {agentName},
                        !.docs = MapSet(@, folder, claudeMdContent),
                        !.groups = MapSet(@, jid, NewGroup(agentName, folder, allMounts)),
                        !.settings = MapSet(@, folder, CreateEnv(body, model))]
        made == IF Truthy(tasksSection)
                THEN CreateTasksLoop(parseYamlList(tasksSection.text), 1,
                                     agentName, folder, w1.tasks)
                ELSE Ok(w1.tasks)
    IN  IF ~isValidGroupFolder(folder)
        THEN Throw(<<"Invalid folder name: ">> \o folder, w)
        ELSE IF getRegisteredGroup(w.groups, jid)
        THEN Throw(<<"Agent \"">> \o agentName \o <<"\" already exists (JID: ">>
                       \o jid \o <<")">>, w)
        ELSE IF ~Truthy(claudeMdSection)
        THEN Throw(<<"Missing ## CLAUDE.md section">>, w)
        ELSE IF lineCount > MAX_CLAUDE_MD_LINES
        THEN Throw(TooLongMsg(lineCount, "is ", ""), w)
        ELSE IF ~isolationError.isNull
        THEN Throw(isolationError.text, w)
        ELSE IF ~made.ok
        THEN Throw(made.msg, [w1 EXCEPT !.tasks = made.v])
        ELSE Ok([w1 EXCEPT !.tasks = made.v])

-----------------------------------------------------------------------------
(* MODIFY *)

\* findOrchestratorJid: the jid of the group whose folder is 'main', '' if none
findOrchestratorJid(g) ==
    IF \E jid \in DOMAIN g : g[jid].folder = <<"main">>
    THEN CHOOSE jid \in DOMAIN g : g[jid].folder = <<"main">>
    ELSE <<>>

\* the membership test without toLowerCase()
IsSelfModCaseSensitive(agent) == agent \in SELF_MOD_NAMES

IsSelfMod(agent) == ToLowerCase(agent) \in SELF_MOD_NAMES

\* Lines 341-357: the folder and jid the handler works on, and whether a
\* group was found there
ResolveModify(agentName, g) ==
    LET exact == (<<"agent:">> \o agentName) \in DOMAIN g
        folder1 == IF ~exact /\ ~EndsWith(agentName, SPECIALIST)
                   THEN agentName \o SPECIALIST ELSE agentName
        jid1 == <<"agent:">> \o folder1
        orch == findOrchestratorJid(g)
    IN  IF IsSelfMod(agentName)
        THEN [folder |-> <<"main">>, jid |-> orch,
              found |-> NonEmpty(orch) /\ orch \in DOMAIN g]
        ELSE [folder |-> folder1, jid |-> jid1, found |-> jid1 \in DOMAIN g]

\* "Update CLAUDE.md if provided"
ModifyClaudeMd(body, folder, w) ==
    LET claudeMdSection == parseSection(body, "CLAUDE\\.md")
        claudeMdContent == CodeBlockOr(claudeMdSection.text)
        lineCount == LineCount(claudeMdContent)
    IN  IF ~Truthy(claudeMdSection) THEN Ok(w)
        ELSE IF lineCount > MAX_CLAUDE_MD_LINES
        THEN Throw(TooLongMsg(lineCount, "is ", ""), w)
        ELSE Ok([w EXCEPT !.docs = MapSet(@, folder, claudeMdContent)])

\* "Append to CLAUDE.md if provided"
ModifyAppend(body, folder, w) ==
    LET appendSection == parseSection(body, "Append to CLAUDE\\.md")
        appendContent == CodeBlockOr(appendSection.text)
        existing == IF folder \in DOMAIN w.docs THEN w.docs[folder] ELSE <<Blank>>
        combined == TrimEnd(existing) \o <<Blank>> \o appendContent \o <<Blank>>
        lineCount == LineCount(combined)
    IN  IF ~Truthy(appendSection) THEN Ok(w)
        ELSE IF lineCount > MAX_CLAUDE_MD_LINES
        THEN Throw(TooLongMsg(lineCount, "would be ", " after append"), w)
        ELSE Ok([w EXCEPT !.docs = MapSet(@, folder, combined)])

\* settings.json of a folder, { env: {} } when the file does not exist
SettingsOf(w, folder) == IF folder \in DOMAIN w.settings THEN w.settings[folder] ELSE EmptyMap

\* "Update model in settings.json"
ModifyModel(model, folder, w) ==
    IF ~NonEmpty(model) THEN w
    ELSE [w EXCEPT !.settings =
            MapSet(@, folder, MapSet(SettingsOf(w, folder),
                                     <<"CLAUDE_CODE_USE_MODEL">>, resolveModel(model)))]

\* One [k, v] entry of an env item
EnvEntry(env, k, v) ==
    IF v # <<>> /\ v[1] = "$"
    THEN LET envKey == Tail(v)
             vals == readEnvFile(<<envKey>>)
         IN  IF envKey \in DOMAIN vals /\ NonEmpty(vals[envKey])
             THEN MapSet(env, envKey, vals[envKey]) ELSE env
    ELSE MapSet(env, <<k>>, v)

RECURSIVE EnvEntries(_, _, _)
EnvEntries(env, item, j) ==
    IF j > Len(item) THEN env
    ELSE EnvEntries(EnvEntry(env, item[j].key, item[j].val), item, j + 1)

RECURSIVE EnvItems(_, _, _)
EnvItems(env, envItems, i) ==
    IF i > Len(envItems) THEN env
    ELSE EnvItems(EnvEntries(env, envItems[i], 1), envItems, i + 1)

\* "Inject env vars"
ModifyEnv(body, folder, w) ==
    LET envSection == parseSection(body, "API Keys|Env|Environment")
    IN  IF ~Truthy(envSection) THEN w
        ELSE [w EXCEPT !.settings =
                MapSet(@, folder, EnvItems(SettingsOf(w, folder),
                                           parseYamlList(envSection.text), 1))]

\* The name validateMountsIsolation is given in handleModify (line 444)
ModifyIsolationName(agentName) ==
    IF agentName = <<"main">> \/ agentName = <<"orchestrator">> THEN <<"main">> ELSE agentName

\* the section handled as the agent's whole mount list
ModifyMountsReplace(agentName, body, jid, w) ==
    LET mountsSection == parseSection(body, "Mounts")
        newMounts == MountItems(parseYamlList(mountsSection.text), 1)
        isolationError == validateMountsIsolation(ModifyIsolationName(agentName), newMounts)
        group == w.groups[jid]
    IN  IF ~Truthy(mountsSection) THEN Ok(w)
        ELSE IF ~isolationError.isNull THEN Throw(isolationError.text, w)
        ELSE Ok([w EXCEPT !.groups =
                    MapSet(@, jid, [group EXCEPT !.additionalMounts = newMounts])])

\* "Update mounts"
ModifyMounts(agentName, body, jid, w) ==
    LET mountsSection == parseSection(body, "Mounts")
        newMounts == MountItems(parseYamlList(mountsSection.text), 1)
        isolationError == validateMountsIsolation(ModifyIsolationName(agentName), newMounts)
        group == w.groups[jid]
    IN  IF ~Truthy(mountsSection) THEN Ok(w)
        ELSE IF ~isolationError.isNull THEN Throw(isolationError.text, w)
        ELSE Ok([w EXCEPT !.groups =
                    MapSet(@, jid, [group EXCEPT !.additionalMounts = @ \o newMounts])])

\* The loop over taskItems in handleModify; existingIds is read once, before it
RECURSIVE ModifyTasksLoop(_, _, _, _, _, _, _)
ModifyTasksLoop(taskItems, i, agentName, folder, jid, existingIds, tbl) ==
    IF i > Len(taskItems) THEN Ok(tbl)
    ELSE LET item == taskItems[i]
             taskId == TaskIdOf(item, agentName)
             cron == TaskCronOf(item)
         IN  IF ~NonEmpty(cron) \/ ~NonEmpty(TaskPromptOf(item))
             THEN ModifyTasksLoop(taskItems, i + 1, agentName, folder, jid, existingIds, tbl)
             ELSE LET next == computeNextCronRun(cron)
                      made == createTask(tbl, NewTask(item, taskId, folder, jid, next.v))
                  IN  IF ~next.ok THEN Throw(next.msg, tbl)
                      ELSE IF taskId \in existingIds
                      THEN ModifyTasksLoop(taskItems, i + 1, agentName, folder, jid, existingIds,
                                           updateTask(tbl, taskId, TaskPromptOf(item), cron, next.v))
                      ELSE IF ~made.ok THEN Throw(made.msg, tbl)
                      ELSE ModifyTasksLoop(taskItems, i + 1, agentName, folder, jid,
                                           existingIds, made.v)

\* the section handled as if the agent had no task yet
ModifyTasksCreateOnly(agentName, body, folder, jid, w) ==
    LET tasksSection == parseSection(body, "Scheduled Tasks|Tasks")
        r == ModifyTasksLoop(parseYamlList(tasksSection.text), 1, agentName, folder, jid,
                             {}, w.tasks)
    IN  IF ~Truthy(tasksSection) THEN Ok(w)
        ELSE [ok |-> r.ok, msg |-> r.msg, v |-> [w EXCEPT !.tasks = r.v]]

\* "Add/update scheduled tasks"
ModifyTasks(agentName, body, folder, jid, w) ==
    LET tasksSection == parseSection(body, "Scheduled Tasks|Tasks")
        r == ModifyTasksLoop(parseYamlList(tasksSection.text), 1, agentName, folder, jid,
                             getTasksForGroup(w.tasks, folder), w.tasks)
    IN  IF ~Truthy(tasksSection) THEN Ok(w)
        ELSE [ok |-> r.ok, msg |-> r.msg, v |-> [w EXCEPT !.tasks = r.v]]

handleModify(agentName, body, model, w) ==
    LET target == ResolveModify(agentName, w.groups)
        folder == target.folder
        r1 == ModifyClaudeMd(body, folder, w)
        r2 == IF r1.ok THEN ModifyAppend(body, folder, r1.v) ELSE r1
        w4 == ModifyEnv(body, folder, ModifyModel(model, folder, r2.v))
        r5 == IF r2.ok THEN ModifyMounts(agentName, body, target.jid, w4) ELSE r2
    IN  IF ~target.found THEN Throw(NotFoundMsg(agentName), w)
        ELSE IF ~r5.ok THEN r5
        ELSE ModifyTasks(agentName, body, folder, target.jid, r5.v)

-----------------------------------------------------------------------------
(* DELETE *)

\* Lines 517-525: exact name first, then the name with '-specialist'
ResolveDelete(agentName, g) ==
    LET exact == (<<"agent:">> \o agentName) \in DOMAIN g
        folder == IF ~exact /\ ~EndsWith(agentName, SPECIALIST)
                  THEN agentName \o SPECIALIST ELSE agentName
        jid == <<"agent:">> \o folder
    IN  [folder |-> folder, jid |-> jid, found |-> jid \in DOMAIN g]

\* A file below SHARED_DIR: shared/<subdir>/<agent>/<sub>/<name>
SharedPath(subdir, agent, sub, name) ==
    [subdir |-> subdir, agent |-> agent, sub |-> sub, name |-> name]

\* The directories handleCreate makes below shared/<subdir>/<agentName>
\* (lines 252-262): there is no results/<agentName>/active
CreatedSubs(subdir) ==
    CASE subdir = "tasks" -> {"inbox", "active", "archive"}
      [] subdir = "results" -> {"inbox", "archive"}
      [] OTHER -> {"archive"}

\* fs.existsSync(agentDir) and fs.existsSync(src)
SrcExists(p, subdir, agentName, sub) == agentName \in p /\ sub \in CreatedSubs(subdir)

\* fs.readdirSync(src), as the paths of its files
ReaddirSrc(sh, subdir, agentName, sub) ==
    {q \in DOMAIN sh : q.subdir = subdir /\ q.agent = agentName /\ q.sub = sub}

\* path.join(archiveDir, file) for the file at q
ArchivePath(q) == [q EXCEPT !.sub = "archive"]

\* The loop over files: fs.renameSync(path.join(src, file), path.join(archiveDir, file)),
\* which replaces a file of that name already in archive
ArchiveFiles(sh, moved) ==
    [q \in (DOMAIN sh \ moved) \cup {ArchivePath(m) : m \in moved} |->
        IF \E m \in moved : ArchivePath(m) = q
        THEN sh[CHOOSE m \in moved : ArchivePath(m) = q]
        ELSE sh[q]]

\* One pass of the loop over ['inbox', 'active'] (lines 555-564)
ArchiveSub(sh, p, subdir, agentName, sub) ==
    IF ~SrcExists(p, subdir, agentName, sub) THEN sh
    ELSE ArchiveFiles(sh, ReaddirSrc(sh, subdir, agentName, sub))

\* Lines 551-565: the directories are those of the name written in the spec
ArchiveShared(sh, p, agentName) ==
    ArchiveSub(ArchiveSub(ArchiveSub(ArchiveSub(sh, p, "tasks", agentName, "inbox"),
                                     p, "tasks", agentName, "active"),
                          p, "results", agentName, "inbox"),
               p, "results", agentName, "active")

\* a delete that lets an unknown name pass
handleDeleteLenient(agentName, w) ==
    LET target == ResolveDelete(agentName, w.groups)
        folder == target.folder
    IN  IF ~target.found THEN Ok(w)
        ELSE Ok([w EXCEPT
                   !.tasks = [id \in DOMAIN @ \ getTasksForGroup(@, folder) |-> @[id]],
                   !.groups = MapDel(@, target.jid),
                   !.docs = MapDel(@, folder),
                   !.settings = MapDel(@, folder),
                   !.shared = ArchiveShared(@, w.parts, agentName)])

\* a delete that removes the registry entry and leaves the agent's tasks
handleDeleteKeepsTasks(agentName, w) ==
    LET target == ResolveDelete(agentName, w.groups)
        folder == target.folder
    IN  IF ~target.found THEN Throw(NotFoundMsg(agentName), w)
        ELSE Ok([w EXCEPT
                   !.groups = MapDel(@, target.jid),
                   !.docs = MapDel(@, folder),
                   !.settings = MapDel(@, folder),
                   !.shared = ArchiveShared(@, w.parts, agentName)])

handleDelete(agentName, w) ==
    LET target == ResolveDelete(agentName, w.groups)
        folder == target.folder
    IN  IF ~target.found THEN Throw(NotFoundMsg(agentName), w)
        ELSE Ok([w EXCEPT
                   !.tasks = [id \in DOMAIN @ \ getTasksForGroup(@, folder) |-> @[id]],
                   !.groups = MapDel(@, target.jid),
                   !.docs = MapDel(@, folder),
                   !.settings = MapDel(@, folder),
                   !.shared = ArchiveShared(@, w.parts, agentName)])

-----------------------------------------------------------------------------
(* File names and renameSpec *)

\* `${prefix}${id}.md` when st = "NEW", `${prefix}${id}.${st}.md` otherwise
FileName(prefix, id, st) == [prefix |-> prefix, id |-> id, st |-> st]

\* a test that finds no state suffix in any name
IncludesNothing(file, suffix) == FALSE

\* file.includes('.X.')
Includes(file, suffix) == file.st = suffix

\* base.replace(/\.(APPLIED|FAILED|PENDING_APPROVAL|APPROVED)$/, '') + `.${suffix}.md`
NewPath(filePath, suffix) == FileName(filePath.prefix, filePath.id, suffix)

\* content + '\n\n---\n\n' + appendText
WithNote(content, appendText) == content \o <<Blank, Dash, Blank>> \o appendText

\* a copy instead of a rename: the entry stays under its old name as well
RenameSyncCopy(d, filePath, newPath) ==
    [f \in DOMAIN d \cup {newPath} |-> IF f = newPath THEN d[filePath] ELSE d[f]]

\* fs.renameSync: the entry moves to newPath, replacing what was there
RenameSync(d, filePath, newPath) ==
    [f \in (DOMAIN d \ {filePath}) \cup {newPath} |->
        IF f = newPath THEN d[filePath] ELSE d[f]]

\* appendText = <<>> stands for the call without the third argument
renameSpec(d, filePath, suffix, appendText) ==
    LET written == IF appendText # <<>>
                   THEN [d EXCEPT ![filePath].text = WithNote(@, appendText)]
                   ELSE d
    IN  RenameSync(written, filePath, NewPath(filePath, suffix))

-----------------------------------------------------------------------------
(* processSpecFile, processApprovedFile *)

InvalidFormatNote ==
    << Bold("Error:", <<"Invalid spec format. Missing or malformed YAML frontmatter.">>),
       Text("Expected: operation, agent fields.") >>

PendingNote ==
    << Bold("Pending owner approval.",
            <<"This spec targets the Orchestrator. Waiting for rename to .APPROVED.md.">>) >>

CannotDeleteNote == << Bold("Error:", <<"Cannot delete the Orchestrator.">>) >>

ReparseNote == << Bold("Error:", <<"Could not re-parse spec after approval.">>) >>

ErrorNote(msg) == << Bold("Error:", msg) >>

\* The switch on the operation: the handler that runs, "none" when no case matches
HandlerOfNew(operation) ==
    CASE operation = <<"create">> -> "create"
      [] operation = <<"modify">> -> "modify"
      [] operation = <<"delete">> -> "delete"
      [] OTHER -> "none"

HandlerOfApproved(operation) ==
    CASE operation = <<"create">> -> "create"
      [] operation = <<"modify">> -> "modify"
      [] OTHER -> "none"

RunHandler(handler, agent, body, model, w) ==
    CASE handler = "create" -> handleCreate(agent, body, model, w)
      [] handler = "modify" -> handleModify(agent, body, model, w)
      [] handler = "delete" -> handleDelete(agent, w)
      [] OTHER -> Ok(w)

\* What one dispatch did: the directory and world after it, the handler it
\* ran, the suffixes it passed to renameSpec, and the message of a failure
Outcome(d, w, ran, renamed, msg, parsed) ==
    [dir |-> d, w |-> w, ran |-> ran, renamed |-> renamed, msg |-> msg, parsed |-> parsed]

\* a catch that renames without a note
SettleSilent(d, filePath, handler, parsed, r) ==
    IF r.ok
    THEN Outcome(renameSpec(d, filePath, "APPLIED", <<>>), r.v, handler,
                 <<"APPLIED">>, <<>>, parsed)
    ELSE Outcome(renameSpec(d, filePath, "FAILED", <<>>), r.v, handler,
                 <<"FAILED">>, r.msg, parsed)

\* renameSpec(APPLIED) after the switch, renameSpec(FAILED, msg) in the catch;
\* r is what the handler returned or threw
Settle(d, filePath, handler, parsed, r) ==
    IF r.ok
    THEN Outcome(renameSpec(d, filePath, "APPLIED", <<>>), r.v, handler,
                 <<"APPLIED">>, <<>>, parsed)
    ELSE Outcome(renameSpec(d, filePath, "FAILED", ErrorNote(r.msg)), r.v, handler,
                 <<"FAILED">>, r.msg, parsed)

\* try { switch ...; renameSpec(APPLIED) } catch { renameSpec(FAILED, msg) }
TryHandler(d, w, filePath, handler, parsed) ==
    Settle(d, filePath, handler, parsed,
           RunHandler(handler, parsed.agent, parsed.body, parsed.model, w))

\* processSpecFile after `const parsed = parseFrontmatter(content)`
SpecFileParsed(d, w, filePath, parsed) ==
    IF ~parsed.ok
    THEN Outcome(renameSpec(d, filePath, "FAILED", InvalidFormatNote), w, "none",
                 <<"FAILED">>, <<"Invalid spec format">>, parsed)
    ELSE IF IsSelfMod(parsed.agent) /\ parsed.operation # <<"delete">>
    THEN Outcome(renameSpec(d, filePath, "PENDING_APPROVAL", PendingNote), w, "none",
                 <<"PENDING_APPROVAL">>, <<>>, parsed)
    ELSE IF IsSelfMod(parsed.agent) /\ parsed.operation = <<"delete">>
    THEN Outcome(renameSpec(d, filePath, "FAILED", CannotDeleteNote), w, "none",
                 <<"FAILED">>, <<"Cannot delete the Orchestrator.">>, parsed)
    ELSE TryHandler(d, w, filePath, HandlerOfNew(parsed.operation), parsed)

processSpecFile(d, w, filePath) ==
    SpecFileParsed(d, w, filePath, parseFrontmatter(d[filePath].text))

\* Index of the first "\n---\n\n**Pending owner approval" at or after line i, 0 if none
MarkerAt(content, i) ==
    FirstIn({j \in i..(Len(content) - 2) :
                /\ content[j] = Dash
                /\ content[j + 1] = Blank
                /\ content[j + 2].k = "bold"
                /\ content[j + 2].key = "Pending owner approval."})

\* content.split('\n---\n\n**Pending owner approval')[0]
StripApprovalNotice(content) ==
    LET i == MarkerAt(content, 2)
    IN  IF i = 0 THEN content ELSE SubSeq(content, 1, i - 1)

\* processApprovedFile after `const parsed = parseFrontmatter(cleanContent)`
ApprovedFileParsed(d, w, filePath, parsed) ==
    IF ~parsed.ok
    THEN Outcome(renameSpec(d, filePath, "FAILED", ReparseNote), w, "none",
                 <<"FAILED">>, <<"Could not re-parse spec after approval.">>, parsed)
    ELSE TryHandler(d, w, filePath, HandlerOfApproved(parsed.operation), parsed)

processApprovedFile(d, w, filePath) ==
    ApprovedFileParsed(d, w, filePath,
                       parseFrontmatter(StripApprovalNotice(d[filePath].text)))

-----------------------------------------------------------------------------
(* The spec files external actors write *)

SpecText(operation, agent, model, body) ==
    <<Dash, KV("operation", operation), KV("agent", agent)>>
    \o (IF model # <<>> THEN <<KV("model", model)>> ELSE <<>>)
    \o <<Dash>> \o body

ClaudeMdSection ==
    <<H2("CLAUDE.md"), Fence, Text("You are a specialist."), Blank,
      Text("Keep answers short."), Fence, Blank>>

TasksSection(id, cron) ==
    <<H2("Scheduled Tasks"), Item("id", id), KV("cron", cron),
      KV("prompt", <<"Check the inbox">>), Blank>>

MountsSection(host) ==
    <<H2("Mounts"), Item("host", host), KV("container", <<"extra">>),
      KV("readonly", <<"true">>), Blank>>

AppendSection == <<H2("Append to CLAUDE.md"), Text("Report to the owner weekly.")>>

EnvSection == <<H2("API Keys"), Item("key", <<"EXA_API_KEY">>), Blank>>

Billing == <<"billing">>

BillingSpecialist == <<"billing", "-specialist">>

PartitionOf(subdir, agentName) == SHARED_DIR \o <<"/", subdir, "/">> \o agentName

\* A file an external actor may write: its name, its text, and the states
\* it may be written in
Entry(prefix, id, born, text) == [prefix |-> prefix, id |-> id, born |-> born, text |-> text]

CreateBilling ==
    Entry("create-", "billing", {"NEW"},
          SpecText(<<"create">>, Billing, <<"sonnet">>,
                   ClaudeMdSection \o EnvSection \o TasksSection(<<"task-1">>, <<"0 9 * * 1">>)))

DeleteBilling ==
    Entry("delete-", "billing", {"NEW"}, SpecText(<<"delete">>, Billing, <<>>, <<Blank>>))

\* a create whose task has a schedule the cron parser refuses
CreateBillingBadCron ==
    Entry("create-", "billing-nightly", {"NEW"},
          SpecText(<<"create">>, Billing, <<>>,
                   ClaudeMdSection \o TasksSection(<<"task-2">>, <<"every night">>)))

ModifyOrchestrator ==
    Entry("modify-", "main", {"NEW"},
          SpecText(<<"modify">>, <<"Orchestrator">>, <<"opus">>, AppendSection))

CreateMain ==
    Entry("create-", "main", {"NEW"},
          SpecText(<<"create">>, <<"main">>, <<>>,
                   ClaudeMdSection \o TasksSection(<<"task-3">>, <<"*/30 * * * *">>)))

DeleteMain ==
    Entry("delete-", "main", {"NEW", "APPROVED"},
          SpecText(<<"delete">>, <<"MAIN">>, <<>>, <<Blank>>))

CreateBillingSpecialist ==
    Entry("create-", "billing-specialist", {"NEW"},
          SpecText(<<"create">>, BillingSpecialist, <<>>, ClaudeMdSection))

\* a modify that names billing by its folder and mounts a directory of the
\* partition tasks/billing-specialist
ModifyBillingMount ==
    Entry("modify-", "billing-specialist", {"NEW"},
          SpecText(<<"modify">>, BillingSpecialist, <<>>,
                   MountsSection(PartitionOf("tasks", BillingSpecialist) \o <<"/", "inbox">>)))

\* a create whose mount reaches into billing's results partition
CreateAuditCross ==
    Entry("create-", "audit", {"NEW"},
          SpecText(<<"create">>, <<"audit">>, <<>>,
                   ClaudeMdSection \o MountsSection(PartitionOf("results", Billing))))

\* a second valid create of billing under a file name of its own
CreateBillingAgain ==
    Entry("create-", "billing-again", {"NEW"}, CreateBilling.text)

\* a second spec under the file name modify-main.md, with another content
ModifyMainModel ==
    Entry("modify-", "main", {"NEW"}, SpecText(<<"modify">>, <<"main">>, <<"haiku">>, <<Blank>>))

\* the content of a diverted modify-main file, approval notice included,
\* written again as a new spec
ModifyResubmitted ==
    Entry("modify-", "main-again", {"NEW"}, WithNote(ModifyOrchestrator.text, PendingNote))

DeleteBillingSpecialist ==
    Entry("delete-", "billing-specialist", {"NEW"},
          SpecText(<<"delete">>, BillingSpecialist, <<>>, <<Blank>>))

CreateBillingSpecialistAgain ==
    Entry("create-", "billing-specialist-again", {"NEW"}, CreateBillingSpecialist.text)

\* An instruction document of n lines, and the section that carries it
Document(n) == [i \in 1..n |-> Text("Answer in one paragraph.")]

DocumentSection(n) == <<H2("CLAUDE.md"), Fence>> \o Document(n) \o <<Fence, Blank>>

\* a mount whose host is the relative path tasks/other-agent
RelativeMountSection ==
    <<H2("Mounts"), Item("host", <<"tasks", "/", "other-agent">>),
      KV("container", <<"tasks">>), Blank>>

CreateBillingRelative ==
    Entry("create-", "billing", {"NEW"},
          SpecText(<<"create">>, Billing, <<>>, DocumentSection(10) \o RelativeMountSection))

\* A revised instruction document of n lines
Revision(n) == [i \in 1..n |-> Text("Answer in two paragraphs.")]

RevisionSection(n) == <<H2("CLAUDE.md"), Fence>> \o Revision(n) \o <<Fence, Blank>>

\* creates and modifies whose document has MAX_CLAUDE_MD_LINES lines, or one more
CreateBillingAtLimit ==
    Entry("create-", "billing", {"NEW"},
          SpecText(<<"create">>, Billing, <<>>, DocumentSection(MAX_CLAUDE_MD_LINES)))

CreateAuditOverLimit ==
    Entry("create-", "audit", {"NEW"},
          SpecText(<<"create">>, <<"audit">>, <<>>, DocumentSection(MAX_CLAUDE_MD_LINES + 1)))

ModifyBillingAtLimit ==
    Entry("modify-", "billing", {"NEW"},
          SpecText(<<"modify">>, Billing, <<>>, RevisionSection(MAX_CLAUDE_MD_LINES)))

ModifyBillingOverLimit ==
    Entry("modify-", "billing-long", {"NEW"},
          SpecText(<<"modify">>, Billing, <<>>, RevisionSection(MAX_CLAUDE_MD_LINES + 1)))

\* a document three lines short of the limit, and appends of one and two lines
CreateBillingNearLimit ==
    Entry("create-", "billing", {"NEW"},
          SpecText(<<"create">>, Billing, <<>>, DocumentSection(MAX_CLAUDE_MD_LINES - 3)))

AppendTwoSection ==
    <<H2("Append to CLAUDE.md"), Text("Report to the owner weekly."),
      Text("Report to the owner monthly.")>>

ModifyBillingAppendOne ==
    Entry("modify-", "billing-one", {"NEW"}, SpecText(<<"modify">>, Billing, <<>>, AppendSection))

ModifyBillingAppendTwo ==
    Entry("modify-", "billing-two", {"NEW"},
          SpecText(<<"modify">>, Billing, <<>>, AppendTwoSection))

\* a modify with a document of 150 lines and an append section
ModifyBillingBoth ==
    Entry("modify-", "billing-both", {"NEW"},
          SpecText(<<"modify">>, Billing, <<>>,
                   RevisionSection(MAX_CLAUDE_MD_LINES) \o AppendSection))

\* One entry of a Scheduled Tasks section
TaskItem(id, cron, prompt) == <<Item("id", id), KV("cron", cron), KV("prompt", prompt)>>

\* a modify that declares billing's task-1 again and a task-4
ModifyBillingUpsert ==
    Entry("modify-", "billing", {"NEW"},
          SpecText(<<"modify">>, Billing, <<>>,
                   <<H2("Scheduled Tasks")>>
                   \o TaskItem(<<"task-1">>, <<"*/30 * * * *">>, <<"Check the inbox twice">>)
                   \o TaskItem(<<"task-4">>, <<"0 9 * * 1">>, <<"Send the report">>)))

\* a modify that declares the id task-5 twice
ModifyBillingRepeat ==
    Entry("modify-", "billing-repeat", {"NEW"},
          SpecText(<<"modify">>, Billing, <<>>,
                   <<H2("Scheduled Tasks")>>
                   \o TaskItem(<<"task-5">>, <<"0 9 * * 1">>, <<"Count the invoices">>)
                   \o TaskItem(<<"task-5">>, <<"*/30 * * * *">>, <<"Count them again">>)))

\* a modify that declares the id of the orchestrator's heartbeat task
ModifyBillingForeign ==
    Entry("modify-", "billing-foreign", {"NEW"},
          SpecText(<<"modify">>, Billing, <<>>,
                   <<H2("Scheduled Tasks")>>
                   \o TaskItem(<<"task-orch-heartbeat">>, <<"0 9 * * 1">>, <<"Take over">>)))

\* a tasks section whose second entry has a schedule the cron parser refuses
MixedTasksSection(first, second, third) ==
    <<H2("Scheduled Tasks")>>
    \o TaskItem(first, <<"0 9 * * 1">>, <<"Check the inbox">>)
    \o TaskItem(second, <<"every night">>, <<"Close the day">>)
    \o TaskItem(third, <<"*/30 * * * *">>, <<"Send the report">>)

CreateAuditMixed ==
    Entry("create-", "audit", {"NEW"},
          SpecText(<<"create">>, <<"audit">>, <<>>,
                   ClaudeMdSection
                   \o MixedTasksSection(<<"audit-1">>, <<"audit-2">>, <<"audit-3">>)))

ModifyBillingMixed ==
    Entry("modify-", "billing", {"NEW"},
          SpecText(<<"modify">>, Billing, <<>>,
                   MixedTasksSection(<<"task-1">>, <<"task-6">>, <<"task-7">>)))

\* a file that is no spec file
Notes == Entry("notes-", "todo", {"NEW"}, <<Text("remember the milk")>>)

\* a create file without the delimited header block
CreateNoHeader ==
    Entry("create-", "plain", {"NEW", "APPROVED"},
          <<KV("operation", <<"create">>), KV("agent", Billing)>> \o ClaudeMdSection)

\* a create file whose header has no agent key
CreateNoAgent ==
    Entry("create-", "nobody", {"NEW", "APPROVED"},
          <<Dash, KV("operation", <<"create">>), KV("model", <<"sonnet">>), Dash>>
          \o ClaudeMdSection)

\* a file whose header names an operation the controller does not know
ModifyRename ==
    Entry("modify-", "rename", {"NEW", "APPROVED"},
          SpecText(<<"rename">>, Billing, <<>>, ClaudeMdSection))

\* a create without an instruction-document section
CreateAuditNoDocument ==
    Entry("create-", "audit", {"NEW"},
          SpecText(<<"create">>, <<"audit">>, <<>>,
                   TasksSection(<<"audit-1">>, <<"0 9 * * 1">>)))

\* a modify of billing with a new document, a model, an environment entry
\* and a mount that reaches into the results partition of agent audit
ModifyBillingCrossing ==
    Entry("modify-", "billing-crossing", {"NEW"},
          SpecText(<<"modify">>, Billing, <<"opus">>,
                   RevisionSection(2) \o EnvSection
                   \o MountsSection(PartitionOf("results", <<"audit">>))))

\* a self-targeting modify written into the directory under a name that
\* already carries the APPROVED suffix
ModifyOrchestratorForged ==
    Entry("modify-", "forged", {"APPROVED"}, ModifyOrchestrator.text)

\* a modify of the controller that declares a task of its own
ModifyOrchestratorTasks ==
    Entry("modify-", "main-tasks", {"NEW"},
          SpecText(<<"modify">>, <<"main">>, <<>>,
                   TasksSection(<<"task-8">>, <<"0 9 * * 1">>)))

\* a delete of billing written with the APPROVED suffix
DeleteBillingApproved ==
    Entry("delete-", "billing-approved", {"APPROVED"}, DeleteBilling.text)

Catalogue(sc) ==
    CASE sc = "roundtrip" -> {CreateBilling, DeleteBilling, CreateBillingBadCron,
                              CreateBillingAgain}
      [] sc = "selfmod" -> {ModifyOrchestrator, CreateMain, DeleteMain, Notes}
      [] sc = "isolation" -> {CreateBilling, CreateBillingSpecialist, ModifyBillingMount,
                              CreateAuditCross}
      [] sc = "reuse" -> {ModifyOrchestrator, ModifyMainModel, ModifyResubmitted}
      [] sc = "suffix" -> {CreateBillingSpecialist, DeleteBillingSpecialist,
                           CreateBillingSpecialistAgain}
      [] sc = "archive" -> {CreateBilling, DeleteBilling, DeleteBillingSpecialist}
      [] sc = "errors" -> {CreateBilling, DeleteBilling}
      [] sc = "relative" -> {CreateBillingRelative, DeleteBilling, CreateAuditNoDocument}
      [] sc = "append" -> {CreateBillingNearLimit, ModifyBillingAppendOne,
                           ModifyBillingAppendTwo, ModifyBillingBoth}
      [] sc = "upsert" -> {CreateBilling, ModifyBillingUpsert, ModifyBillingRepeat,
                           ModifyBillingForeign}
      [] sc = "cron" -> {CreateBilling, CreateAuditMixed, ModifyBillingMixed}
      [] sc = "alias" -> {CreateBilling, CreateBillingSpecialist, DeleteBillingSpecialist}
      [] sc = "atomic" -> {CreateBilling, ModifyBillingCrossing}
      [] sc = "bypass" -> {ModifyOrchestrator, ModifyOrchestratorForged,
                           ModifyOrchestratorTasks}
      [] sc = "applied" -> {CreateBilling, DeleteBilling, DeleteBillingApproved}
      [] sc = "malformed" -> {CreateBilling, CreateNoHeader, CreateNoAgent, ModifyRename}
      [] sc = "size" -> {CreateBillingAtLimit, CreateAuditOverLimit, ModifyBillingAtLimit,
                         ModifyBillingOverLimit}

Scenarios == {"roundtrip", "selfmod", "isolation", "reuse", "suffix", "archive", "errors",
              "relative", "size", "append", "upsert", "cron", "alias", "malformed", "atomic", "bypass",
              "applied"}

\* A file an agent or the orchestrator may write into a partition directory
Dropped(subdir, agent, sub, name, content) ==
    [path |-> SharedPath(subdir, agent, sub, name), content |-> content]

Drops(sc) ==
    IF sc = "archive"
    THEN {Dropped("tasks", Billing, "inbox", "job-1.md", "second job-1"),
          Dropped("tasks", Billing, "archive", "job-1.md", "first job-1"),
          Dropped("tasks", Billing, "active", "job-2.md", "job-2"),
          Dropped("results", Billing, "inbox", "out-1.md", "out-1")}
    ELSE {}

-----------------------------------------------------------------------------
(* The state at start-up: the orchestrator is registered, no spec file yet *)

MainGroup ==
    [name |-> <<"Main">>, folder |-> <<"main">>, trigger |-> "@andy",
     additionalMounts |-> <<>>, timeout |-> 600000, requiresTrigger |-> FALSE]

HeartbeatTask ==
    [id |-> <<"task-orch-heartbeat">>, group_folder |-> <<"main">>,
     chat_jid |-> ORCHESTRATOR_JID, prompt |-> <<"[HEARTBEAT]">>, schedule_type |-> "cron",
     schedule_value |-> <<"*/30 * * * *">>, context_mode |-> <<"group">>,
     next_run |-> NextRunOf(<<"*/30 * * * *">>), status |-> "active"]

MainClaudeMd == <<Text("# Orchestrator"), Blank>>

MainSettings == (<<"CLAUDE_CODE_EXPERIMENTAL_AGENT_TEAMS">> :> <<"1">>)

Init ==
    /\ dir = EmptyMap
    /\ groups = (ORCHESTRATOR_JID :> MainGroup)
    /\ tasks = (<<"task-orch-heartbeat">> :> HeartbeatTask)
    /\ docs = (<<"main">> :> MainClaudeMd)
    /\ settings = (<<"main">> :> MainSettings)
    /\ parts = {}
    /\ shared = EmptyMap
    /\ pc = "idle"
    /\ initial = TRUE
    /\ files = {}
    /\ nextFid = 1
    /\ scenario \in Scenarios
    /\ trail = <<>>
    /\ hist = EmptyMap
    /\ probe = [body |-> <<Blank>>, heading |-> "Mounts", section |-> Null, done |-> FALSE]

-----------------------------------------------------------------------------
(* External actors *)

\* An external actor writes a spec file into the directory
Submit(e, st) ==
    /\ nextFid <= MaxSubmits
    /\ e \in Catalogue(scenario)
    /\ st \in e.born
    /\ FileName(e.prefix, e.id, st) \notin DOMAIN dir
    /\ dir' = MapSet(dir, FileName(e.prefix, e.id, st), [fid |-> nextFid, text |-> e.text])
    /\ hist' = MapSet(hist, nextFid,
                      [orig |-> e.text, born |-> st, new |-> 0, approved |-> 0,
                       pended |-> FALSE, released |-> FALSE])
    /\ nextFid' = nextFid + 1
    /\ UNCHANGED <<groups, tasks, docs, settings, parts, shared, pc, initial, files,
                    scenario, trail, probe>>

\* The owner approves: renames x.PENDING_APPROVAL.md to x.APPROVED.md
Approve(f) ==
    /\ f \in DOMAIN dir
    /\ f.st = "PENDING_APPROVAL"
    /\ NewPath(f, "APPROVED") \notin DOMAIN dir
    /\ dir' = RenameSync(dir, f, NewPath(f, "APPROVED"))
    /\ hist' = [hist EXCEPT ![dir[f].fid].released = TRUE]
    /\ UNCHANGED <<groups, tasks, docs, settings, parts, shared, pc, initial, files,
                    nextFid, scenario, trail, probe>>

\* The paths external actors may take a spec file away from
Removable(sc) == sc = "errors"

\* An external actor removes a file from the directory
Remove(f) ==
    /\ Removable(scenario)
    /\ f \in DOMAIN dir
    /\ dir' = MapDel(dir, f)
    /\ UNCHANGED <<groups, tasks, docs, settings, parts, shared, pc, initial, files,
                    nextFid, scenario, trail, hist, probe>>

\* An agent or the orchestrator writes a file into a partition directory
Drop(e) ==
    /\ e \in Drops(scenario)
    /\ SrcExists(parts, e.path.subdir, e.path.agent, e.path.sub)
    /\ e.path \notin DOMAIN shared
    /\ shared' = MapSet(shared, e.path, e.content)
    /\ UNCHANGED <<dir, groups, tasks, docs, settings, parts, pc, initial, files,
                    nextFid, scenario, trail, hist, probe>>

-----------------------------------------------------------------------------
(* poll *)

\* the loop body without the branch for approved files
ClassifyWithoutApproved(file) ==
    IF file.st # "NEW" THEN "skip"
    ELSE IF file.prefix \in {"create-", "modify-", "delete-"} THEN "new"
    ELSE "ignore"

\* The branch of the loop body a directory entry takes
Classify(file) ==
    IF Includes(file, "APPLIED") \/ Includes(file, "FAILED")
       \/ Includes(file, "PENDING_APPROVAL")
    THEN "skip"
    ELSE IF Includes(file, "APPROVED") THEN "approved"
    ELSE IF file.prefix \in {"create-", "modify-", "delete-"} THEN "new"
    ELSE "ignore"

\* poll() up to the loop: the entries readdirSync returns
\* (a tick after the initial one that finds the directory empty changes nothing)
PollBegin ==
    /\ pc = "idle"
    /\ DOMAIN dir # {} \/ initial
    /\ files' = DOMAIN dir
    /\ pc' = IF DOMAIN dir = {} THEN "idle" ELSE "polling"
    /\ initial' = (initial /\ DOMAIN dir # {})
    /\ UNCHANGED <<dir, groups, tasks, docs, settings, parts, shared, nextFid, scenario,
                    trail, hist, probe>>

\* The for loop goes on to its next entry; after the last one poll returns
LoopOn(file) ==
    /\ files' = files \ {file}
    /\ pc' = IF files' = {} THEN "idle" ELSE "polling"
    /\ initial' = (initial /\ files' # {})

Push(tr, e) == IF Len(tr) < MaxTrail THEN Append(tr, e) ELSE Append(Tail(tr), e)

Bump(n) == IF n < 2 THEN n + 1 ELSE n

\* One dispatch of the loop body: o is what processSpecFile or
\* processApprovedFile did to the file
Dispatched(file, path, o) ==
    /\ dir' = o.dir
    /\ groups' = o.w.groups
    /\ tasks' = o.w.tasks
    /\ docs' = o.w.docs
    /\ settings' = o.w.settings
    /\ parts' = o.w.parts
    /\ shared' = o.w.shared
    /\ trail' = Push(trail, [fid |-> dir[file].fid, path |-> path, file |-> file,
                             ran |-> o.ran, renamed |-> o.renamed, msg |-> o.msg,
                             operation |-> o.parsed.operation,
                             agent |-> o.parsed.agent])
    /\ hist' = [hist EXCEPT
                  ![dir[file].fid].new =
                      IF path = "new" /\ o.ran # "none" THEN Bump(@) ELSE @,
                  ![dir[file].fid].approved =
                      IF path = "approved" /\ o.ran # "none" THEN Bump(@) ELSE @,
                  ![dir[file].fid].pended = @ \/ o.renamed = <<"PENDING_APPROVAL">>]

PollDispatch(file) ==
    /\ pc = "polling"
    /\ file \in files
    /\ file \in DOMAIN dir
    /\ Classify(file) \in {"new", "approved"}
    /\ \E o \in {IF Classify(file) = "new"
                  THEN processSpecFile(dir, World(groups, tasks, docs, settings, parts, shared), file)
                  ELSE processApprovedFile(dir, World(groups, tasks, docs, settings, parts, shared),
                                           file)} :
          Dispatched(file, Classify(file), o)
    /\ LoopOn(file)
    /\ UNCHANGED <<nextFid, scenario, probe>>

PollSkip(file) ==
    /\ pc = "polling"
    /\ file \in files
    /\ Classify(file) \in {"skip", "ignore"}
    /\ LoopOn(file)
    /\ UNCHANGED <<dir, groups, tasks, docs, settings, parts, shared, nextFid, scenario,
                    trail, hist, probe>>

\* fs.readFileSync (lines 591, 643) throws for an entry that is no longer in
\* the directory, and poll throws with it: main's initial poll() (line 717)
\* is outside any try, the process ends; the interval's catch (lines 721-725)
\* logs the error of a later tick, and the entries not yet visited wait for
\* the next tick
PollError(file) ==
    /\ pc = "polling"
    /\ file \in files
    /\ file \notin DOMAIN dir
    /\ Classify(file) \in {"new", "approved"}
    /\ pc' = IF initial THEN "crashed" ELSE "idle"
    /\ files' = {}
    /\ UNCHANGED <<dir, groups, tasks, docs, settings, parts, shared, initial, nextFid,
                    scenario, trail, hist, probe>>

Next ==
    \/ \E e \in Catalogue(scenario), st \in {"NEW", "APPROVED"} : Submit(e, st)
    \/ \E f \in DOMAIN dir : Approve(f)
    \/ \E f \in DOMAIN dir : Remove(f)
    \/ \E e \in Drops(scenario) : Drop(e)
    \/ PollBegin
    \/ \E f \in files : PollDispatch(f)
    \/ \E f \in files : PollSkip(f)
    \/ \E f \in files : PollError(f)

Spec == Init /\ [][Next]_vars

\* The for loop moves on to its next entry
LoopStep == pc = "polling" /\ \E f \in files : files' = files \ {f}

\* setInterval keeps calling poll, and a call of poll runs its loop to the end
FairSpec ==
    /\ Spec
    /\ WF_vars(PollBegin)
    /\ WF_files(LoopStep)

-----------------------------------------------------------------------------
(* parseSection on its own: a body and a heading, then the call *)

\* The lines a body is made of
BodyLines == {H2("Mounts"), H2("Tasks"), Fence, Text("- host: data"), Blank,
              Text("Handle the billing tasks"), Text("Read the .env file")}

Bodies == UNION {[1..n -> BodyLines] : n \in 1..MaxLines}

Headings == {"Mounts", "Scheduled Tasks|Tasks", "API Keys|Env|Environment"}

SectionInit ==
    /\ dir = EmptyMap
    /\ groups = (ORCHESTRATOR_JID :> MainGroup)
    /\ tasks = (<<"task-orch-heartbeat">> :> HeartbeatTask)
    /\ docs = (<<"main">> :> MainClaudeMd)
    /\ settings = (<<"main">> :> MainSettings)
    /\ parts = {}
    /\ shared = EmptyMap
    /\ pc = "idle"
    /\ initial = TRUE
    /\ files = {}
    /\ nextFid = 1
    /\ scenario = "roundtrip"
    /\ trail = <<>>
    /\ hist = EmptyMap
    /\ \E b \in Bodies, h \in Headings :
          probe = [body |-> b, heading |-> h, section |-> Null, done |-> FALSE]

\* The call parseSection(body, heading)
ParseSection ==
    /\ ~probe.done
    /\ probe' = [probe EXCEPT !.section = parseSection(probe.body, probe.heading),
                               !.done = TRUE]
    /\ UNCHANGED <<dir, groups, tasks, docs, settings, parts, shared, pc, initial, files,
                    nextFid, scenario, trail, hist>>

SectionNext == ParseSection

SectionSpec == SectionInit /\ [][SectionNext]_vars

-----------------------------------------------------------------------------
(* Properties *)

\* The summary of the most recent dispatch
Last == trail[Len(trail)]

\* The step is a dispatch of the poll loop
DispatchStep == trail' # trail

\* The agent field names the controller in some letter case
NamesController(agent) ==
    \E a \in {<<"orchestrator">>, <<"main">>} :
        /\ Len(agent) = Len(a)
        /\ \A i \in 1..Len(a) : LowerTok(agent[i]) = a[i]

\* C1. Self-mod gating: every dispatch of a NEW file whose header operation
\* is create or modify and whose agent is 'orchestrator' or 'main' in any
\* letter case renames the file to PENDING_APPROVAL with the approval notice
\* appended, and leaves registry, tasks, documents, settings and partitions
\* as they were.
C1_SelfModGating ==
    [][ (/\ DispatchStep
         /\ Last'.path = "new"
         /\ Last'.operation \in {<<"create">>, <<"modify">>}
         /\ NamesController(Last'.agent))
        => (/\ Last'.renamed = <<"PENDING_APPROVAL">>
            /\ Last'.ran = "none"
            /\ Last'.file \notin DOMAIN dir'
            /\ NewPath(Last'.file, "PENDING_APPROVAL") \in DOMAIN dir'
            /\ dir'[NewPath(Last'.file, "PENDING_APPROVAL")].text
                   = dir[Last'.file].text \o <<Blank, Dash, Blank>> \o PendingNote
            /\ UNCHANGED world) ]_vars

\* A modify spec naming 'Orchestrator' in mixed case was met as a NEW file
\* and now sits in the directory as PENDING_APPROVAL
C1_Witness ==
    /\ trail # <<>>
    /\ Last.path = "new"
    /\ Last.operation = <<"modify">>
    /\ Last.agent = <<"Orchestrator">>
    /\ Last.renamed = <<"PENDING_APPROVAL">>
    /\ NewPath(Last.file, "PENDING_APPROVAL") \in DOMAIN dir

\* The registry entries handleCreate wrote: the agents that own partitions
Specialists == {jid \in DOMAIN groups : EndsWith(groups[jid].folder, SPECIALIST)}

\* The agent such an entry belongs to: its folder without '-specialist'
AgentOf(group) == SubSeq(group.folder, 1, Len(group.folder) - Len(SPECIALIST))

\* The path hp is the directory root or lies below it
Under(hp, root) ==
    /\ StartsWith(hp, root)
    /\ (Len(hp) = Len(root) \/ hp[Len(root) + 1] = "/")

\* C2. Isolation invariant: in every reachable state, for all registered
\* agents A and B with A different from B, no mount stored in A's registry
\* entry has a host path under B's tasks, results or knowledge partition root.
C2_Isolation ==
    \A ja \in DOMAIN groups : \A jb \in Specialists \ {ja} :
        \A i \in 1..Len(groups[ja].additionalMounts) :
            \A s \in 1..Len(PARTITION_SUBDIRS) :
                ~Under(groups[ja].additionalMounts[i].hostPath,
                       PartitionOf(PARTITION_SUBDIRS[s], AgentOf(groups[jb])))

\* The step is one of the controller (the poll loop), not of an external actor
ControllerStep == pc' # pc \/ files' # files

\* The file named f is in the directory after the step with the text it had
Kept(f) == f \in DOMAIN dir' /\ dir'[f].text = dir[f].text

\* C3. Spec file states are one-way and terminal: a file with the APPLIED or
\* FAILED suffix is never renamed, changed or dispatched by a later step; a
\* PENDING_APPROVAL file leaves that state only by the external rename to
\* APPROVED; and no controller step gives a file a bare NEW name.
C3_OneWayTerminal ==
    [][ /\ \A f \in DOMAIN dir :
              f.st \in {"APPLIED", "FAILED"} => Kept(f)
        /\ DispatchStep => Last'.file.st \notin {"APPLIED", "FAILED"}
        /\ \A f \in DOMAIN dir :
              f.st = "PENDING_APPROVAL"
              => \/ Kept(f)
                 \/ /\ ~ControllerStep
                    /\ f \notin DOMAIN dir'
                    /\ NewPath(f, "APPROVED") \in DOMAIN dir'
                    /\ dir'[NewPath(f, "APPROVED")].text = dir[f].text
        /\ ControllerStep
              => \A f \in DOMAIN dir' : f.st = "NEW" => f \in DOMAIN dir /\ Kept(f)
      ]_vars

\* The names under which the file with identity fid is in directory d
NamesOf(d, fid) == {f \in DOMAIN d : d[f].fid = fid}

\* C4. Every dispatch by the poller ends with exactly one rename of the
\* dispatched file, to APPLIED or FAILED, or to PENDING_APPROVAL only for a
\* self-targeting create/modify met as a NEW file; after the dispatch the
\* file is in exactly one of these states.
C4_OneRename ==
    [][ DispatchStep
        => /\ Len(Last'.renamed) = 1
           /\ Last'.renamed[1] \in {"APPLIED", "FAILED", "PENDING_APPROVAL"}
           /\ Last'.renamed[1] = "PENDING_APPROVAL"
                 => /\ Last'.path = "new"
                    /\ NamesController(Last'.agent)
                    /\ Last'.operation \in {<<"create">>, <<"modify">>}
           /\ NamesOf(dir', Last'.fid) = {NewPath(Last'.file, Last'.renamed[1])}
      ]_vars

\* Three dispatches in a row ended in the three states: a diversion to
\* PENDING_APPROVAL, an APPLIED and a FAILED
C4_Witness ==
    /\ Len(trail) = 3
    /\ {trail[i].renamed : i \in 1..3}
          = {<<"APPLIED">>, <<"FAILED">>, <<"PENDING_APPROVAL">>}
    /\ \A i \in 1..3 : Len(trail[i].renamed) = 1
    /\ NamesOf(dir, Last.fid) = {NewPath(Last.file, Last.renamed[1])}

\* The file with identity fid waits for the poller: a create-, modify- or
\* delete- file without a state suffix, or a file with the APPROVED suffix
Waiting(fid) ==
    \E f \in NamesOf(dir, fid) :
        \/ f.st = "APPROVED"
        \/ f.st = "NEW" /\ f.prefix \in {"create-", "modify-", "delete-"}

Settled(fid) ==
    \E f \in NamesOf(dir, fid) : f.st \in {"APPLIED", "FAILED", "PENDING_APPROVAL"}

\* The file with identity fid has been taken out of the directory
Withdrawn(fid) == fid \in DOMAIN hist /\ NamesOf(dir, fid) = {}

\* C5. Liveness of the control loop: when poll ticks keep occurring (the
\* process has not ended), every spec file that is NEW or APPROVED and stays
\* in the directory eventually is APPLIED, FAILED or PENDING_APPROVAL; none
\* stays NEW or APPROVED forever.
C5_Liveness ==
    \A fid \in 1..MaxSubmits :
        Waiting(fid) ~> (Settled(fid) \/ Withdrawn(fid) \/ pc = "crashed")

\* A file diverted to PENDING_APPROVAL and approved has been settled by a
\* later tick, and another file met as NEW has been settled as well
C5_Witness ==
    /\ \E fid \in DOMAIN hist :
          hist[fid].pended /\ hist[fid].released /\ hist[fid].approved = 1
          /\ Settled(fid) /\ ~Waiting(fid)
    /\ \E fid \in DOMAIN hist :
          hist[fid].born = "NEW" /\ ~hist[fid].pended /\ Settled(fid) /\ ~Waiting(fid)

\* C6. At-most-once dispatch: over any sequence of poll ticks a handler is
\* run for a given spec file at most once while the file is NEW and at most
\* once after it was renamed to APPROVED.
C6_AtMostOnce ==
    \A fid \in DOMAIN hist : hist[fid].new <= 1 /\ hist[fid].approved <= 1

\* A later tick has listed the directory and holds, still to be visited, the
\* renamed name of a file whose handler has already run
C6_Witness ==
    /\ pc = "polling"
    /\ \E f \in files \cap DOMAIN dir :
          /\ f.st \in {"APPLIED", "FAILED"}
          /\ hist[dir[f].fid].new + hist[dir[f].fid].approved = 1

\* What a non-gated dispatch of a file parsed as p does in world w: the
\* handler of the header's operation, and its result
DirectParsed(p, w) ==
    [handler |-> HandlerOfNew(p.operation),
     r |-> RunHandler(HandlerOfNew(p.operation), p.agent, p.body, p.model, w)]

Direct(content, w) == DirectParsed(parseFrontmatter(content), w)

SectionNames ==
    {"CLAUDE\\.md", "Append to CLAUDE\\.md", "Mounts", "Scheduled Tasks|Tasks",
     "API Keys|Env|Environment"}

\* The two parses agree on operation, agent, model and every body section
SameParse(p, q) ==
    /\ p.ok = q.ok
    /\ p.operation = q.operation
    /\ p.agent = q.agent
    /\ p.model = q.model
    /\ \A n \in SectionNames : parseSection(p.body, n) = parseSection(q.body, n)

\* The dispatch summarised by l, leading to world w2, did what d says
SameRun(l, w2, d) ==
    /\ l.ran = d.handler
    /\ l.renamed = IF d.r.ok THEN <<"APPLIED">> ELSE <<"FAILED">>
    /\ w2 = d.r.v

\* C7. Approved path equals the non-gated path: when a file that was
\* diverted to PENDING_APPROVAL and then renamed to APPROVED is dispatched,
\* the content re-parsed after stripping the notice has the operation, agent,
\* model and body sections of the original content, the handler a non-gated
\* spec would run is run, the file ends APPLIED if it succeeds and FAILED if
\* it throws, and registry, tasks and files end as after running the handler
\* directly on the original content.
C7_ApprovedEqualsDirect ==
    [][ (/\ DispatchStep
         /\ Last'.path = "approved"
         /\ hist[Last'.fid].pended
         /\ hist[Last'.fid].released)
        => /\ SameParse(parseFrontmatter(StripApprovalNotice(dir[Last'.file].text)),
                        parseFrontmatter(hist[Last'.fid].orig))
           /\ SameRun(Last', World(groups', tasks', docs', settings', parts', shared'),
                      Direct(hist[Last'.fid].orig,
                             World(groups, tasks, docs, settings, parts, shared)))
      ]_vars

\* C8. Self-deletion is a hard failure regardless of approval state: every
\* dispatch, of a NEW or of an APPROVED file, whose header operation is
\* delete and whose agent is 'orchestrator' or 'main' in any letter case ends
\* in FAILED, runs no handler and leaves registry, tasks, documents,
\* settings and partitions as they were.
C8_SelfDeleteFails ==
    [][ (/\ DispatchStep
         /\ Last'.operation = <<"delete">>
         /\ NamesController(Last'.agent))
        => /\ Last'.renamed = <<"FAILED">>
           /\ Last'.ran = "none"
           /\ UNCHANGED world ]_vars

\* The jid handleCreate registers an agent under
CreateJid(agent) == <<"agent:">> \o agent \o SPECIALIST

MentionsAlreadyExists(msg) == \E i \in 1..Len(msg) : msg[i] = "\" already exists (JID: "

\* C9. Idempotence boundary of create: a create handler run for an
\* identifier that already has a registry entry, whether an earlier create
\* ended APPLIED or failed after writing the entry, ends FAILED with an
\* 'already exists' message and leaves registry, documents, settings, tasks
\* and partitions unchanged.
C9_CreateTwice ==
    [][ (/\ DispatchStep
         /\ Last'.ran = "create"
         /\ CreateJid(Last'.agent) \in DOMAIN groups)
        => /\ Last'.renamed = <<"FAILED">>
           /\ MentionsAlreadyExists(Last'.msg)
           /\ UNCHANGED world ]_vars

\* Two create specs for billing were processed one after the other: the
\* first ended APPLIED, the second FAILED with 'already exists', and the
\* registration and the task of the first are in place
C9_Witness ==
    /\ Len(trail) >= 2
    /\ trail[Len(trail) - 1].ran = "create"
    /\ trail[Len(trail) - 1].agent = Billing
    /\ trail[Len(trail) - 1].renamed = <<"APPLIED">>
    /\ Last.ran = "create"
    /\ Last.agent = Billing
    /\ Last.fid # trail[Len(trail) - 1].fid
    /\ Last.renamed = <<"FAILED">>
    /\ MentionsAlreadyExists(Last.msg)
    /\ CreateJid(Billing) \in DOMAIN groups
    /\ <<"task-1">> \in DOMAIN tasks

\* Entry i of the trail is a create of X that ended APPLIED
CreatedAt(i) == trail[i].ran = "create" /\ trail[i].renamed = <<"APPLIED">>

\* Entry i of the trail is the dispatch of a delete spec for the agent of entry j
DeleteAt(i, j) ==
    /\ trail[i].path = "new"
    /\ trail[i].operation = <<"delete">>
    /\ trail[i].agent = trail[j].agent

\* No registry entry and no scheduled task of agent X
Gone(agent) ==
    /\ CreateJid(agent) \notin DOMAIN groups
    /\ \A id \in DOMAIN tasks : tasks[id].group_folder # agent \o SPECIALIST

\* C10. Round trip: for a create spec of X that ended APPLIED, a following
\* delete spec of X ends APPLIED and leaves no registry entry and no
\* scheduled task of X, and a following create spec of X with the content of
\* the first ends APPLIED again.
C10_RoundTrip ==
    /\ (Len(trail) >= 2 /\ CreatedAt(Len(trail) - 1) /\ DeleteAt(Len(trail), Len(trail) - 1))
          => Last.renamed = <<"APPLIED">> /\ Gone(Last.agent)
    /\ (/\ Len(trail) = 3 /\ CreatedAt(1) /\ DeleteAt(2, 1)
        /\ Last.operation = <<"create">>
        /\ hist[Last.fid].orig = hist[trail[1].fid].orig)
          => /\ trail[2].renamed = <<"APPLIED">>
             /\ Last.renamed = <<"APPLIED">>

\* The files in the inbox and active directories of an agent's tasks and
\* results partitions
InboxOrActive(sh, agent) ==
    {q \in DOMAIN sh : /\ q.agent = agent
                       /\ q.subdir \in {"tasks", "results"}
                       /\ q.sub \in {"inbox", "active"}}

\* C11. Delete archives, it does not erase: when a delete spec ends APPLIED,
\* for the agent whose registry entry it removed (named in the spec by its
\* bare name or by the suffixed variant), every file that was in inbox or
\* active of its tasks and results partitions is in the corresponding archive
\* directory with its content, inbox and active hold no files, every file
\* that was in an archive directory is still there with its content, and no
\* file of the partitions has been lost.
C11_DeleteArchives ==
    [][ (/\ DispatchStep
         /\ Last'.ran = "delete"
         /\ Last'.renamed = <<"APPLIED">>)
        => \A j \in DOMAIN groups \ DOMAIN groups' :
              /\ \A q \in InboxOrActive(shared, AgentOf(groups[j])) :
                    /\ ArchivePath(q) \in DOMAIN shared'
                    /\ shared'[ArchivePath(q)] = shared[q]
              /\ InboxOrActive(shared', AgentOf(groups[j])) = {}
              /\ \A q \in DOMAIN shared :
                    q.sub = "archive" => q \in DOMAIN shared' /\ shared'[q] = shared[q]
              /\ Cardinality(DOMAIN shared') = Cardinality(DOMAIN shared)
      ]_vars

\* The message is an isolation violation that names the agent
CrossesInto(msg, agent) ==
    \E i \in 1..Len(msg) :
        /\ msg[i] = "\" crosses into agent \""
        /\ SubSeq(msg, i + 1, i + Len(agent)) = agent

\* C12. Scenario: a create spec for agent 'billing' (not registered) with a
\* valid instruction document and one mount with host 'tasks/other-agent'
\* and container 'tasks' ends FAILED with an isolation violation message
\* naming 'other-agent'; no partition directory is created and no registry
\* entry is written for billing.
C12_RelativeMountRejected ==
    [][ (/\ DispatchStep
         /\ hist[Last'.fid].orig = CreateBillingRelative.text
         /\ CreateJid(Billing) \notin DOMAIN groups)
        => /\ Last'.renamed = <<"FAILED">>
           /\ CrossesInto(Last'.msg, <<"other-agent">>)
           /\ parts' = parts
           /\ CreateJid(Billing) \notin DOMAIN groups'
      ]_vars

\* The specs with an instruction-document section of n lines: the operation,
\* the agent's folder, the document and its length
SizeCases ==
    { [text |-> CreateBillingAtLimit.text, operation |-> "create",
       folder |-> Billing \o SPECIALIST, doc |-> Document(150), n |-> 150],
      [text |-> CreateAuditOverLimit.text, operation |-> "create",
       folder |-> <<"audit">> \o SPECIALIST, doc |-> Document(151), n |-> 151],
      [text |-> ModifyBillingAtLimit.text, operation |-> "modify",
       folder |-> Billing \o SPECIALIST, doc |-> Revision(150), n |-> 150],
      [text |-> ModifyBillingOverLimit.text, operation |-> "modify",
       folder |-> Billing \o SPECIALIST, doc |-> Revision(151), n |-> 151] }

\* The handler of the case gets as far as its document: a create of an agent
\* that is not registered, a modify of one that is
ReachesDocument(c) ==
    (c.operation = "create") = ((<<"agent:">> \o c.folder) \notin DOMAIN groups)

AppendRejected(msg) == \E i \in 1..Len(msg) : msg[i] = " after append"

\* The document after appending the lines to it: the old text without its
\* trailing blank lines, an empty line, the lines, and a final newline
Appended(existing, lines) == TrimEnd(existing) \o <<Blank>> \o lines \o <<Blank>>

\* The modify specs that carry an append section only, and the lines they append
AppendCases ==
    { [text |-> ModifyBillingAppendOne.text,
       lines |-> <<Text("Report to the owner weekly.")>>],
      [text |-> ModifyBillingAppendTwo.text,
       lines |-> <<Text("Report to the owner weekly."),
                   Text("Report to the owner monthly.")>>] }

\* C14. Append boundary: a modify spec whose append section would make the
\* stored instruction document longer than 150 lines ends FAILED and leaves
\* the instruction documents on disk as they were before the spec was
\* processed, for every modify spec, also one that carries a document
\* section as well; an append whose resulting document has at most 150 lines
\* is accepted and written.
C14_AppendBoundary ==
    [][ (DispatchStep /\ Last'.ran = "modify")
        => /\ AppendRejected(Last'.msg)
                 => Last'.renamed = <<"FAILED">> /\ docs' = docs
           /\ \A c \in AppendCases :
                 (/\ hist[Last'.fid].orig = c.text
                  /\ CreateJid(Billing) \in DOMAIN groups)
                 => IF Len(Appended(docs[Billing \o SPECIALIST], c.lines)) <= 150
                    THEN /\ Last'.renamed = <<"APPLIED">>
                         /\ docs'[Billing \o SPECIALIST]
                                = Appended(docs[Billing \o SPECIALIST], c.lines)
                    ELSE /\ Last'.renamed = <<"FAILED">>
                         /\ AppendRejected(Last'.msg)
                         /\ docs' = docs
      ]_vars

\* What a modify spec for billing declares in its Scheduled Tasks section
Declared(id, cron, prompt) == [id |-> id, cron |-> cron, prompt |-> prompt]

UpsertCases ==
    { [text |-> ModifyBillingUpsert.text,
       items |-> << Declared(<<"task-1">>, <<"*/30 * * * *">>, <<"Check the inbox twice">>),
                    Declared(<<"task-4">>, <<"0 9 * * 1">>, <<"Send the report">>) >>],
      [text |-> ModifyBillingRepeat.text,
       items |-> << Declared(<<"task-5">>, <<"0 9 * * 1">>, <<"Count the invoices">>),
                    Declared(<<"task-5">>, <<"*/30 * * * *">>, <<"Count them again">>) >>],
      [text |-> ModifyBillingForeign.text,
       items |-> << Declared(<<"task-orch-heartbeat">>, <<"0 9 * * 1">>, <<"Take over">>) >>] }

DeclaredIds(c) == {c.items[i].id : i \in 1..Len(c.items)}

\* The ids of the tasks owned by the folder in table tbl
OwnedBy(tbl, folder) == {id \in DOMAIN tbl : tbl[id].group_folder = folder}

\* Task id of table new is the task of table old with the prompt, schedule
\* expression and next_run of the declared item, and nothing else changed
UpdatedInPlace(old, new, it) ==
    /\ it.id \in DOMAIN new
    /\ new[it.id] = [old[it.id] EXCEPT !.prompt = it.prompt,
                                        !.schedule_value = it.cron,
                                        !.next_run = NextRunOf(it.cron)]

\* Task id of table new is a new task of the folder made from the declared item
CreatedFrom(new, it, folder) ==
    /\ it.id \in DOMAIN new
    /\ new[it.id].group_folder = folder
    /\ new[it.id].prompt = it.prompt
    /\ new[it.id].schedule_value = it.cron
    /\ new[it.id].next_run = NextRunOf(it.cron)

\* C15. Task upsert: when a modify spec for agent A declares a scheduled task
\* whose id exists for A, the task's prompt, schedule expression and next_run
\* are updated in place and the number of A's tasks is unchanged; when the id
\* does not exist, a new task of A is created; after any modify every id is
\* that of one task, and no entry (an id repeated in the spec, an id owned by
\* another agent) adds a second task under an id already present or touches
\* the task that has it.
C15_TaskUpsert ==
    [][ (DispatchStep /\ Last'.ran = "modify" /\ CreateJid(Billing) \in DOMAIN groups)
        => \A c \in UpsertCases :
              hist[Last'.fid].orig = c.text
              => /\ \A id \in DOMAIN tasks \ OwnedBy(tasks, Billing \o SPECIALIST) :
                       id \in DOMAIN tasks' /\ tasks'[id] = tasks[id]
                 /\ DOMAIN tasks \subseteq DOMAIN tasks'
                 /\ DOMAIN tasks' \subseteq DOMAIN tasks \cup DeclaredIds(c)
                 /\ \A id \in DOMAIN tasks' : tasks'[id].id = id
                 /\ \A i \in 1..Len(c.items) :
                       /\ (/\ c.items[i].id \in OwnedBy(tasks, Billing \o SPECIALIST)
                           /\ \A j \in 1..Len(c.items) : c.items[j].id = c.items[i].id => j = i)
                             => UpdatedInPlace(tasks, tasks', c.items[i])
                       /\ (/\ c.items[i].id \notin DOMAIN tasks
                           /\ \A j \in 1..(i - 1) : c.items[j].id # c.items[i].id)
                             => CreatedFrom(tasks', c.items[i], Billing \o SPECIALIST)
                 /\ DeclaredIds(c) \subseteq OwnedBy(tasks, Billing \o SPECIALIST)
                       => /\ Last'.renamed = <<"APPLIED">>
                          /\ OwnedBy(tasks', Billing \o SPECIALIST)
                                 = OwnedBy(tasks, Billing \o SPECIALIST)
      ]_vars

\* The modify that declares task-1 and task-4 has been applied twice: the
\* first time it created task-4, the second time both ids existed; billing
\* has the two tasks, task-1 with the declared prompt and schedule
C15_Witness ==
    /\ Len(trail) >= 2
    /\ \A i \in {Len(trail) - 1, Len(trail)} :
          /\ hist[trail[i].fid].orig = ModifyBillingUpsert.text
          /\ trail[i].renamed = <<"APPLIED">>
    /\ OwnedBy(tasks, Billing \o SPECIALIST) = {<<"task-1">>, <<"task-4">>}
    /\ tasks[<<"task-1">>].prompt = <<"Check the inbox twice">>
    /\ tasks[<<"task-1">>].schedule_value = <<"*/30 * * * *">>

\* The specs whose tasks section has one entry with an invalid cron
\* expression between two valid entries
MixedCases ==
    { [text |-> CreateAuditMixed.text, operation |-> "create",
       folder |-> <<"audit">> \o SPECIALIST,
       valid |-> { Declared(<<"audit-1">>, <<"0 9 * * 1">>, <<"Check the inbox">>),
                   Declared(<<"audit-3">>, <<"*/30 * * * *">>, <<"Send the report">>) },
       invalid |-> <<"audit-2">>],
      [text |-> ModifyBillingMixed.text, operation |-> "modify",
       folder |-> Billing \o SPECIALIST,
       valid |-> { Declared(<<"task-1">>, <<"0 9 * * 1">>, <<"Check the inbox">>),
                   Declared(<<"task-7">>, <<"*/30 * * * *">>, <<"Send the report">>) },
       invalid |-> <<"task-6">>] }

\* C16. Bad-schedule is not fatal: when a create or modify spec has a
\* scheduled-tasks section in which one entry has an invalid cron expression
\* and the other entries are valid, the invalid entry is skipped, every
\* valid entry, before and after it, is created or updated, and the spec
\* ends APPLIED.
C16_BadScheduleSkipped ==
    [][ DispatchStep
        => \A c \in MixedCases :
              (hist[Last'.fid].orig = c.text /\ ReachesDocument(c))
              => /\ Last'.renamed = <<"APPLIED">>
                 /\ \A it \in c.valid : CreatedFrom(tasks', it, c.folder)
                 /\ c.invalid \notin DOMAIN tasks'
      ]_vars

\* The loop is about to read an entry of its listing that is no longer in
\* the directory
ReadFails == pc = "polling" /\ \E f \in files \ DOMAIN dir : Classify(f) \in {"new", "approved"}

\* C17. The poll loop survives per-tick errors: when a poll tick, the one run
\* at start-up included, raises an error outside a handler (here the read of
\* a spec file that was removed after the directory was listed), the
\* controller process keeps running: it is idle again, ready for the next
\* tick, and has not ended.
C17_PollSurvivesErrors ==
    [][ (ReadFails /\ files' = {} /\ UNCHANGED <<dir, trail>>) => pc' = "idle" ]_vars

\* C18. A PENDING_APPROVAL file is left alone by the controller: no step of
\* the poll loop, whatever other spec files have been submitted and are
\* processed, renames, removes or changes a file that is in the
\* PENDING_APPROVAL state; after the step the same file is there under the
\* same name with the same content.
C18_PendingLeftAlone ==
    [][ ControllerStep
        => \A f \in DOMAIN dir :
              f.st = "PENDING_APPROVAL" => f \in DOMAIN dir' /\ dir'[f] = dir[f]
      ]_vars

\* Line j of the body lies inside a fenced code block: an odd number of
\* fence lines precede it
Fenced(b, j) == Cardinality({k \in 1..(j - 1) : b[k].k = "fence"}) % 2 = 1

\* The heading line the call matches, 0 if none
Matched(b, h) == FirstMatch(b, h, 1)

\* The next line after line m that starts with '## ' and is outside any
\* fenced code block, 0 if none
NextHeading(b, m) == FirstIn({j \in (m + 1)..Len(b) : b[j].k = "h2" /\ ~Fenced(b, j)})

\* The text of lines m+1 .. e-1 (to the end when e = 0), trimmed; null when empty
Between(b, m, e) ==
    OrNull(Trim(<<Blank>> \o SubSeq(b, m + 1, IF e = 0 THEN Len(b) ELSE e - 1) \o <<Blank>>))

\* Lines i..j of the body appear in the text, in this order and next to each other
Contains(text, b, i, j) ==
    \E k \in 1..Len(text) : SubSeq(text, k, k + (j - i)) = SubSeq(b, i, j)

\* Line a opens a fenced block inside the section that starts after line m:
\* the fences between m and a are paired and no '## ' line outside them
\* comes before a
OpensInSection(b, m, a) ==
    /\ b[a].k = "fence"
    /\ Cardinality({k \in (m + 1)..(a - 1) : b[k].k = "fence"}) % 2 = 0
    /\ \A j \in (m + 1)..(a - 1) :
          b[j].k = "h2"
          => Cardinality({k \in (m + 1)..(j - 1) : b[k].k = "fence"}) % 2 = 1

\* C19. Section isolation: for every body and section name, the text
\* parseSection returns runs from the matched heading to the next line
\* starting with '## ' that is outside any fenced code block; and a '## '
\* line between an opening and a closing fence inside the section never ends
\* the section: the lines from it up to the closing fence are part of the
\* returned text.
C19_SectionIsolation ==
    (probe.done /\ Matched(probe.body, probe.heading) # 0)
    => /\ probe.section
             = Between(probe.body, Matched(probe.body, probe.heading),
                       NextHeading(probe.body, Matched(probe.body, probe.heading)))
       /\ \A a, j, c \in 1..Len(probe.body) :
             (/\ Matched(probe.body, probe.heading) < a /\ a < j /\ j < c
              /\ OpensInSection(probe.body, Matched(probe.body, probe.heading), a)
              /\ probe.body[j].k = "h2"
              /\ probe.body[c].k = "fence"
              /\ \A k \in (a + 1)..(c - 1) : probe.body[k].k # "fence")
             => /\ ~probe.section.isNull
                /\ Contains(probe.section.text, probe.body, j, c)

\* The folder handleCreate gives the agent created with this identifier
CreateFolder(agent) == agent \o SPECIALIST

\* C20. Effects and frame of delete: after a delete spec for an existing
\* agent A (an agent created with the identifier the spec names) ends
\* APPLIED, no scheduled task with A's owner folder remains and A's registry
\* entry is absent, while the registry entries (mounts included) and the
\* scheduled tasks of every other agent are unchanged.
C20_DeleteFrame ==
    [][ (/\ DispatchStep
         /\ Last'.ran = "delete"
         /\ Last'.renamed = <<"APPLIED">>
         /\ CreateJid(Last'.agent) \in DOMAIN groups)
        => /\ getTasksForGroup(tasks', CreateFolder(Last'.agent)) = {}
           /\ CreateJid(Last'.agent) \notin DOMAIN groups'
           /\ \A j \in DOMAIN groups \ {CreateJid(Last'.agent)} :
                 j \in DOMAIN groups' /\ groups'[j] = groups[j]
           /\ \A id \in DOMAIN tasks :
                 tasks[id].group_folder # CreateFolder(Last'.agent)
                 => id \in DOMAIN tasks' /\ tasks'[id] = tasks[id]
      ]_vars

\* Sequence a is a prefix of sequence b
IsPrefix(a, b) == Len(a) <= Len(b) /\ SubSeq(b, 1, Len(a)) = a

\* The text has a mounts section
HasMountsSection(text) == \E i \in 1..Len(text) : text[i] = H2("Mounts")

\* C21. Mounts are append-only under modify: after a modify spec ends
\* APPLIED, every registry entry is still registered, its mount list before
\* the modify is a prefix of its mount list after it, and its other fields
\* are unchanged; a modify spec without a mounts section leaves the registry
\* unchanged.
C21_MountsAppendOnly ==
    [][ (/\ DispatchStep
         /\ Last'.ran = "modify"
         /\ Last'.renamed = <<"APPLIED">>)
        => /\ DOMAIN groups' = DOMAIN groups
           /\ \A j \in DOMAIN groups :
                 /\ IsPrefix(groups[j].additionalMounts, groups'[j].additionalMounts)
                 /\ groups'[j] = [groups[j] EXCEPT
                                     !.additionalMounts = groups'[j].additionalMounts]
           /\ ~HasMountsSection(hist[Last'.fid].orig) => groups' = groups
      ]_vars

\* a modify with a mounts section ended APPLIED and the agent's mount list
\* is the four mounts of its creation followed by the one of the section
C21_Witness ==
    /\ Len(trail) >= 1
    /\ hist[Last.fid].orig = ModifyBillingMount.text
    /\ Last.ran = "modify"
    /\ Last.renamed = <<"APPLIED">>
    /\ CreateJid(Billing) \in DOMAIN groups
    /\ Len(groups[CreateJid(Billing)].additionalMounts) = 5
    /\ SubSeq(groups[CreateJid(Billing)].additionalMounts, 1, 4) = StandardMounts(Billing)
    /\ groups[CreateJid(Billing)].additionalMounts[5].containerPath = <<"extra">>

\* No registry entry under the exact name nor under the suffixed variant
Unregistered(agent, g) ==
    /\ (<<"agent:">> \o agent) \notin DOMAIN g
    /\ (<<"agent:">> \o agent \o SPECIALIST) \notin DOMAIN g

\* The dispatch ended FAILED with the 'not found' message and changed nothing
\* of the registry, tasks, documents, settings and partitions
FailedNotFound ==
    /\ Last'.renamed = <<"FAILED">>
    /\ Last'.msg = NotFoundMsg(Last'.agent)
    /\ world' = world

NoEntry == <<>>

\* The three-step reference lookup: the exact name, else the name with the
\* suffix, else, for a self-targeting name, the entry whose folder is 'main'
ReferenceLookup(agent, g) ==
    IF (<<"agent:">> \o agent) \in DOMAIN g THEN <<"agent:">> \o agent
    ELSE IF (<<"agent:">> \o agent \o SPECIALIST) \in DOMAIN g
    THEN <<"agent:">> \o agent \o SPECIALIST
    ELSE IF IsSelfMod(agent) /\ \E j \in DOMAIN g : g[j].folder = <<"main">>
    THEN CHOOSE j \in DOMAIN g : g[j].folder = <<"main">>
    ELSE NoEntry

\* The entry handleModify works on, none when it throws 'not found'
Resolved(agent, g) ==
    IF ResolveModify(agent, g).found THEN ResolveModify(agent, g).jid ELSE NoEntry

\* C23. Target resolution order of modify: in every state of the registry in
\* which a modify handler runs, the entry it modifies is the one of the
\* three-step reference lookup (exact name; else suffixed name; else, when
\* self-targeting, the controller's entry), and it fails with 'not found'
\* exactly when the reference lookup finds none.
C23_ResolutionOrder ==
    [][ (DispatchStep /\ Last'.ran = "modify")
        => /\ Resolved(Last'.agent, groups) = ReferenceLookup(Last'.agent, groups)
           /\ (Last'.msg = NotFoundMsg(Last'.agent))
                 = (ReferenceLookup(Last'.agent, groups) = NoEntry)
      ]_vars

\* The closing line of the delimited header block of the text, 0 if it has none
HeaderEnd(text) ==
    IF Len(text) >= 3 /\ text[1] = Dash
    THEN FirstIn({j \in 3..(Len(text) - 1) : text[j] = Dash})
    ELSE 0

\* The values the header block gives the key
HeaderValues(text, key) ==
    {text[i].val : i \in {i \in 2..(HeaderEnd(text) - 1) : text[i].k = "kv" /\ text[i].key = key}}

\* The content lacks the header block, lacks the operation or agent key, or
\* names an operation other than create, modify or delete
Malformed(text) ==
    \/ HeaderEnd(text) = 0
    \/ HeaderValues(text, "operation") = {}
    \/ HeaderValues(text, "agent") = {}
    \/ HeaderValues(text, "operation") \cap {<<"create">>, <<"modify">>, <<"delete">>} = {}

\* The note the dispatch appends to a file it cannot parse
MalformedNote(path) == IF path = "new" THEN InvalidFormatNote ELSE ReparseNote

\* C24. Malformed specs fail without side effects: the dispatch of a file
\* whose content lacks the delimited header block, lacks the operation or
\* agent key, or names an operation other than create, modify or delete runs
\* no handler, renames the file to FAILED with its content followed by a
\* note, and changes nothing else, on the NEW path and on the APPROVED path.
C24_MalformedFails ==
    [][ (DispatchStep /\ Malformed(dir[Last'.file].text))
        => /\ Last'.ran = "none"
           /\ Last'.renamed = <<"FAILED">>
           /\ Last'.file \notin DOMAIN dir'
           /\ NewPath(Last'.file, "FAILED") \in DOMAIN dir'
           /\ dir'[NewPath(Last'.file, "FAILED")].text
                 = WithNote(dir[Last'.file].text, MalformedNote(Last'.path))
           /\ world' = world
      ]_vars

\* a malformed file was dispatched on the NEW path and another on the
\* APPROVED path, with an agent registered, and both ended FAILED
C24_Witness ==
    /\ Len(trail) >= 2
    /\ \E i, j \in 1..Len(trail) :
          /\ trail[i].path = "new" /\ trail[j].path = "approved"
          /\ \A k \in {i, j} :
                /\ Malformed(hist[trail[k].fid].orig)
                /\ trail[k].ran = "none"
                /\ trail[k].renamed = <<"FAILED">>
    /\ CreateJid(Billing) \in DOMAIN groups

\* Line j of the body is a top-level heading with one of the accepted names
\* of the section, outside any fenced code block
IsHeadingOf(b, j, h) ==
    /\ b[j].k = "h2"
    /\ LowerTitle(b[j].key) \in SectionTitles(h)
    /\ ~Fenced(b, j)

\* C25. Section location: parseSection returns a non-null result for a
\* section only if the body has, outside any fenced code block, a line that
\* is a top-level heading with one of the accepted names of the section; a
\* line that merely contains or ends with one of the names does not make the
\* section present.
C25_SectionLocation ==
    (probe.done /\ ~probe.section.isNull)
    => \E j \in 1..Len(probe.body) : IsHeadingOf(probe.body, j, probe.heading)

\* Line m is a heading of the section and only blank lines follow it up to
\* the next heading or the end of the body
PresentButEmpty(b, m, h) ==
    /\ IsHeadingOf(b, m, h)
    /\ \E e \in (m + 1)..(Len(b) + 1) :
          /\ e <= Len(b) => b[e].k = "h2"
          /\ \A j \in (m + 1)..(e - 1) : IsBlank(b[j])

\* C26. Absent and empty are distinguished: for a body that has the heading
\* of a section followed by no text (only blank lines) before the next
\* heading, parseSection returns a result different from the null it returns
\* for a body without that heading.
C26_EmptyIsNotAbsent ==
    (probe.done /\ \E m \in 1..Len(probe.body) :
                      PresentButEmpty(probe.body, m, probe.heading))
    => probe.section # Null

\* The header and body the dispatch of the file works on
ParsedFor(path, content) ==
    IF path = "new" THEN parseFrontmatter(content)
    ELSE parseFrontmatter(StripApprovalNotice(content))

\* What the handler the dispatch ran returns or throws in world w
HandlerResult(l, content, w) ==
    RunHandler(l.ran, ParsedFor(l.path, content).agent, ParsedFor(l.path, content).body,
               ParsedFor(l.path, content).model, w)

\* The file of the dispatch is now named with the suffix and holds the text
Renamed(l, suffix, text) ==
    /\ l.file \notin DOMAIN dir'
    /\ NewPath(l.file, suffix) \in DOMAIN dir'
    /\ dir'[NewPath(l.file, suffix)] = [fid |-> l.fid, text |-> text]

\* C27. Failures are caught at the dispatch layer: whenever the handler of a
\* dispatch throws, the poll loop goes on (the exception does not leave
\* processSpecFile or processApprovedFile), and the file is named FAILED and
\* holds its content followed by the error message; and a file renamed to
\* APPLIED from the NEW state holds exactly the content it had before.
C27_CaughtAtDispatch ==
    [][ DispatchStep
        => /\ (/\ Last'.ran \in {"create", "modify", "delete"}
                /\ ~HandlerResult(Last', dir[Last'.file].text,
                                  World(groups, tasks, docs, settings, parts, shared)).ok)
               => /\ pc' \in {"polling", "idle"}
                  /\ Last'.renamed = <<"FAILED">>
                  /\ Renamed(Last', "FAILED",
                             WithNote(dir[Last'.file].text,
                                      ErrorNote(HandlerResult(Last', dir[Last'.file].text,
                                                              World(groups, tasks, docs, settings,
                                                                    parts, shared)).msg)))
           /\ (Last'.path = "new" /\ Last'.renamed = <<"APPLIED">>)
               => Renamed(Last', "APPLIED", dir[Last'.file].text)
      ]_vars

\* a create handler threw on the APPROVED path and the file is named FAILED
\* with the notice and the error message after its content
C27_Witness ==
    /\ Len(trail) >= 1
    /\ Last.path = "approved"
    /\ Last.ran = "create"
    /\ Last.renamed = <<"FAILED">>
    /\ Last.msg # <<>>
    /\ NewPath(Last.file, "FAILED") \in DOMAIN dir
    /\ dir[NewPath(Last.file, "FAILED")].text
          = WithNote(WithNote(hist[Last.fid].orig, PendingNote), ErrorNote(Last.msg))

\* The message of a validation failure of create: missing document section,
\* oversized document, duplicate identity, mount isolation violation
MissingDocument(msg) == msg = <<"Missing ## CLAUDE.md section">>

Oversized(msg) == Len(msg) >= 2 /\ msg[1] = "CLAUDE.md " /\ msg[2] = "is "

CrossesAny(msg) == \E i \in 1..Len(msg) : msg[i] = "\" crosses into agent \""

ValidationFailure(msg) ==
    MissingDocument(msg) \/ Oversized(msg) \/ MentionsAlreadyExists(msg) \/ CrossesAny(msg)

\* C28. Create validates before it mutates: a create spec that ends FAILED
\* because of a missing instruction-document section, an oversized document,
\* a duplicate identity or a mount isolation violation has created no
\* partition directory, written no instruction document or settings bundle,
\* written no registry entry and created no scheduled task.
C28_CreateValidatesFirst ==
    [][ (/\ DispatchStep
         /\ Last'.ran = "create"
         /\ Last'.renamed = <<"FAILED">>
         /\ ValidationFailure(Last'.msg))
        => world' = world
      ]_vars

\* a create of audit failed on a mount that crosses into the partition of
\* the registered agent billing
C28_Witness ==
    /\ Len(trail) >= 1
    /\ Last.ran = "create"
    /\ Last.renamed = <<"FAILED">>
    /\ CrossesInto(Last.msg, Billing)
    /\ CreateJid(Billing) \in DOMAIN groups
    /\ <<"audit">> \notin parts
    /\ CreateJid(<<"audit">>) \notin DOMAIN groups

\* The message of the size check of modify, on the document or after an append
OversizedModify(msg) == Len(msg) >= 2 /\ msg[1] = "CLAUDE.md " /\ msg[2] \in {"is ", "would be "}

\* C29. Modify is all-or-nothing on validation failure: a modify spec that
\* ends FAILED because of a mount isolation violation or an oversized
\* document leaves the instruction documents, settings bundles, registry
\* entries and scheduled tasks exactly as they were before the spec was
\* processed, also when the spec carries valid document, model or
\* environment sections.
C29_ModifyAllOrNothing ==
    [][ (/\ DispatchStep
         /\ Last'.ran = "modify"
         /\ Last'.renamed = <<"FAILED">>
         /\ (CrossesAny(Last'.msg) \/ OversizedModify(Last'.msg)))
        => /\ docs' = docs
           /\ settings' = settings
           /\ groups' = groups
           /\ tasks' = tasks
      ]_vars

\* C30. Approval cannot be bypassed: a create or modify handler runs for a
\* spec whose agent names the controller's own identity only if that same
\* file was earlier renamed by the controller to PENDING_APPROVAL and then
\* renamed by the owner to APPROVED; a file that first appears in the
\* directory with the APPROVED suffix causes no self-targeting handler to run.
C30_NoBypass ==
    [][ (/\ DispatchStep
         /\ Last'.ran \in {"create", "modify"}
         /\ IsSelfMod(Last'.agent))
        => /\ hist[Last'.fid].born = "NEW"
           /\ hist[Last'.fid].pended
           /\ hist[Last'.fid].released
      ]_vars

\* The operations the header block of the text names
HeaderOperation(text) == HeaderValues(text, "operation")

\* C31. APPLIED means applied: a dispatch renames its file to APPLIED only
\* if the handler for the operation named in the file's header ran in that
\* dispatch and returned without throwing; in particular an APPROVED file
\* whose header operation is delete is not renamed to APPLIED without the
\* delete handler having run.
C31_AppliedMeansApplied ==
    [][ (DispatchStep /\ Last'.renamed = <<"APPLIED">>)
        => /\ Last'.ran \in {"create", "modify", "delete"}
           /\ <<Last'.ran>> \in HeaderOperation(dir[Last'.file].text)
           /\ HandlerResult(Last', dir[Last'.file].text,
                            World(groups, tasks, docs, settings, parts, shared)).ok
      ]_vars

\* The path the rename of the dispatch writes
Target(l) == NewPath(l.file, l.renamed[1])

\* C32. A state-transition rename never destroys another spec file: the
\* rename of a dispatch never writes onto a path that already holds a file,
\* every step of the controller leaves the number of spec files in the
\* directory as it was, and a file with the APPLIED, FAILED or
\* PENDING_APPROVAL suffix is after the step the same file with the same
\* content.
C32_RenameNeverOverwrites ==
    [][ ControllerStep
        => /\ DispatchStep => Target(Last') \notin DOMAIN dir
           /\ Cardinality(DOMAIN dir') = Cardinality(DOMAIN dir)
           /\ \A f \in DOMAIN dir :
                 f.st \in {"APPLIED", "FAILED", "PENDING_APPROVAL"}
                 => f \in DOMAIN dir' /\ dir'[f] = dir[f]
      ]_vars

\* Registry g has an entry whose folder is the given one
Registered(folder, g) == \E jid \in DOMAIN g : g[jid].folder = folder

\* C33. Referential integrity of scheduled tasks: after every step every
\* scheduled task has an owner folder for which a registry entry exists; a
\* task that a step adds is owned by the folder of the registry entry under
\* its chat_jid (create writes the entry before its first task, also when
\* it fails afterwards); and a step that removes a registry entry leaves no
\* task of that entry's folder behind.
C33_TaskIntegrity ==
    [][ /\ \A id \in DOMAIN tasks' : Registered(tasks'[id].group_folder, groups')
        /\ \A id \in DOMAIN tasks' \ DOMAIN tasks :
              /\ tasks'[id].chat_jid \in DOMAIN groups'
              /\ groups'[tasks'[id].chat_jid].folder = tasks'[id].group_folder
        /\ \A jid \in DOMAIN groups \ DOMAIN groups' :
              OwnedBy(tasks', groups[jid].folder) = {}
      ]_vars

\* billing was created with its task and then deleted: the registry entry
\* and the task are both gone, the controller's own task is still there
C33_Witness ==
    /\ Len(trail) >= 2
    /\ trail[Len(trail) - 1].ran = "create"
    /\ trail[Len(trail) - 1].agent = Billing
    /\ trail[Len(trail) - 1].renamed = <<"APPLIED">>
    /\ Last.ran = "delete"
    /\ Last.agent = Billing
    /\ Last.renamed = <<"APPLIED">>
    /\ CreateJid(Billing) \notin DOMAIN groups
    /\ OwnedBy(tasks, Billing \o SPECIALIST) = {}
    /\ <<"task-1">> \notin DOMAIN tasks
    /\ <<"task-orch-heartbeat">> \in DOMAIN tasks

====
